---- MODULE Spec2Model ----
(***************************************************************************)
(* Price initialisation and tick-range computation of the push-swap        *)
(* operational scripts (scripts/cli/add-liquidity.js, scripts/core/*.js).       *)
(*                                                                         *)
(* TLC integers are 32 bits wide, while sqrtPriceX96 is a 160-bit value    *)
(* computed by bignumber.js with 40 decimal places.  The model therefore   *)
(* carries its own arbitrary-precision naturals: little-endian sequences   *)
(* of limbs in base 10^4, so that 2^96 and DECIMAL_PLACES = 40 are the     *)
(* program's real constants and not scaled-down stand-ins.                 *)
(***************************************************************************)
EXTENDS Integers, Sequences, FiniteSets, TLC

-----------------------------------------------------------------------------
(* Arbitrary-precision naturals (the value type of bignumber.js and of     *)
(* ethers.BigNumber).  <<>> is zero; the last limb of a non-zero number is *)
(* non-zero.                                                               *)

BASE == 10^4
RECURSIVE DigitsOf(_)
DigitsOf(b) == IF b < 10 THEN 0 ELSE 1 + DigitsOf(b \div 10)
LimbDigits == DigitsOf(BASE)

Max2(x, y) == IF x >= y THEN x ELSE y

RECURSIVE Pow(_, _)
Pow(b, n) == IF n = 0 THEN 1 ELSE b * Pow(b, n - 1)

RECURSIVE Norm(_)
Norm(a) ==
    IF a = <<>> THEN <<>>
    ELSE IF a[Len(a)] = 0 THEN Norm(SubSeq(a, 1, Len(a) - 1))
    ELSE a

Limb(a, i) == IF i <= Len(a) THEN a[i] ELSE 0

Zeros(n) == [i \in 1..n |-> 0]

RECURSIVE FromInt(_)
FromInt(n) == IF n = 0 THEN <<>> ELSE <<n % BASE>> \o FromInt(n \div BASE)

\* The only element of a one-element set: binds a value once, before use.
One(S) == CHOOSE e \in S : TRUE

\* Carry propagation over v[lo..hi] with carry cin entering at lo:
\* <<the limbs, the carry out>>.  A negative entry borrows (\div and % round
\* toward minus infinity).  The range is halved so that the nesting stays
\* logarithmic in the number of limbs.
RECURSIVE CarryRange(_, _, _, _)
CarryRange(v, lo, hi, cin) ==
    IF lo > hi THEN <<(<<>>), cin>>
    ELSE IF lo = hi
    THEN <<(<<(v[lo] + cin) % BASE>>), (v[lo] + cin) \div BASE>>
    ELSE LET mid == (lo + hi) \div 2
         IN  One(UNION { { <<L[1] \o R[1], R[2]>> :
                              R \in {CarryRange(v, mid + 1, hi, L[2])} } :
                              L \in {CarryRange(v, lo, mid, cin)} })

\* the limbs of the column values v (carry out appended)
Carry(v) ==
    LET r == CarryRange(v, 1, Len(v), 0)
    IN  IF r[2] = 0 THEN r[1] ELSE Append(r[1], r[2])

Add(a, b) ==
    One({ Carry(v) : v \in {[i \in 1..Max2(Len(a), Len(b)) |->
                                 Limb(a, i) + Limb(b, i)]} })

\* a - b for a >= b
Sub(a, b) ==
    One({ Norm(CarryRange(v, 1, Len(v), 0)[1]) :
              v \in {[i \in 1..Len(a) |-> a[i] - Limb(b, i)]} })

\* a * k for a small k, 0 <= k < BASE
MulSmall(a, k) ==
    IF k = 0 THEN <<>>
    ELSE One({ Carry(v) : v \in {[i \in 1..Len(a) |-> a[i] * k]} })

\* a * (b[lo] + b[lo+1] * BASE + ... + b[hi] * BASE^(hi-lo))
RECURSIVE MulRange(_, _, _, _)
MulRange(a, b, lo, hi) ==
    IF lo = hi THEN MulSmall(a, b[lo])
    ELSE LET mid == (lo + hi) \div 2
         IN  Add(MulRange(a, b, lo, mid),
                 Zeros(mid + 1 - lo) \o MulRange(a, b, mid + 1, hi))

Mul(a, b) ==
    IF a = <<>> \/ b = <<>> THEN <<>> ELSE Norm(MulRange(a, b, 1, Len(b)))

\* -1, 0, 1 as a < b, a = b, a > b on the limbs lo..hi of equally long a, b
RECURSIVE CmpRange(_, _, _, _)
CmpRange(a, b, lo, hi) ==
    IF lo > hi THEN 0
    ELSE IF lo = hi
    THEN IF a[lo] < b[lo] THEN -1 ELSE IF a[lo] > b[lo] THEN 1 ELSE 0
    ELSE LET mid == (lo + hi) \div 2
             top == CmpRange(a, b, mid + 1, hi)
         IN  IF top # 0 THEN top ELSE CmpRange(a, b, lo, mid)

Cmp(a, b) ==
    IF Len(a) < Len(b) THEN -1
    ELSE IF Len(a) > Len(b) THEN 1
    ELSE IF a = b THEN 0
    ELSE CmpRange(a, b, 1, Len(a))

Leq(a, b) == Cmp(a, b) <= 0
Less(a, b) == Cmp(a, b) < 0

\* |a - b|
Dist(a, b) == IF Leq(a, b) THEN Sub(b, a) ELSE Sub(a, b)

\* the number of decimal digits of a
NumDigits(a) ==
    IF a = <<>> THEN 0
    ELSE (Len(a) - 1) * LimbDigits + DigitsOf(a[Len(a)]) + 1

\* a * 10^k
ShiftDec(a, k) ==
    IF a = <<>> THEN <<>>
    ELSE Zeros(k \div LimbDigits) \o MulSmall(a, Pow(10, k % LimbDigits))

\* floor(a / 10^j) for 0 <= j < LimbDigits: 10^j divides BASE, so each limb of
\* the quotient is made of one limb of a and the low digits of the next
DivPow10(a, j) ==
    LET p == Pow(10, j)
        q == BASE \div p
    IN  Norm([i \in 1..Len(a) |-> (a[i] \div p) + (Limb(a, i + 1) % p) * q])

\* floor(a / 10^k)
DropDec(a, k) ==
    LET n == k \div LimbDigits
    IN  IF n >= Len(a) THEN <<>>
        ELSE DivPow10(SubSeq(a, n + 1, Len(a)), k % LimbDigits)

\* a / 10^k rounded half up (k >= 1)
DropDecHalfUp(a, k) == DropDec(Add(a, ShiftDec(<<5>>, k - 1)), k)

\* the limbs 1..i of floor((rem * BASE^i + a[1..i]) / d), for a small d
RECURSIVE DivDown(_, _, _, _)
DivDown(a, d, i, rem) ==
    IF i = 0 THEN <<>>
    ELSE Append(DivDown(a, d, i - 1, (rem * BASE + a[i]) % d),
                (rem * BASE + a[i]) \div d)

\* floor(a / d) for a small d >= 1
DivSmall(a, d) == Norm(DivDown(a, d, Len(a), 0))

\* the largest d in lo..hi with (r2 * BASE + d) * d <= c, where r2 = 2 * root
RECURSIVE FindDigit(_, _, _, _)
FindDigit(r2, c, lo, hi) ==
    IF lo = hi THEN lo
    ELSE LET mid == (lo + hi + 1) \div 2
         IN  IF Leq(MulSmall(<<mid>> \o r2, mid), c)
             THEN FindDigit(r2, c, mid, hi)
             ELSE FindDigit(r2, c, lo, mid - 1)

\* One step of the digit-by-digit square root: the two limbs g = <<low, high>>
\* are brought down to the remainder and the next limb of the root is found.
SqrtStep(st, g) ==
    One(UNION { UNION { { <<Norm(<<d>> \o st[1]),
                            Sub(c, MulSmall(<<d>> \o r2, d))>> :
                              d \in {FindDigit(r2, c, 0, BASE - 1)} } :
                              c \in {Norm(g \o st[2])} } :
                              r2 \in {MulSmall(st[1], 2)} })

\* The limbs of a are read two at a time from the top: group k of n holds
\* the limbs 2(n-k)+1 and 2(n-k)+2.
Group(a, n, k) == <<a[2 * (n - k) + 1], Limb(a, 2 * (n - k) + 2)>>

\* the steps for the groups lo..hi applied to st = <<root, remainder>>
RECURSIVE SqrtRange(_, _, _, _, _)
SqrtRange(a, n, lo, hi, st) ==
    IF lo > hi THEN st
    ELSE IF lo = hi THEN SqrtStep(st, Group(a, n, lo))
    ELSE One({ SqrtRange(a, n, ((lo + hi) \div 2) + 1, hi, half) :
                   half \in {SqrtRange(a, n, lo, (lo + hi) \div 2, st)} })

\* <<floor(sqrt(a)), a - floor(sqrt(a))^2>>
SqrtRem(a) ==
    LET n == (Len(a) + 1) \div 2
    IN  SqrtRange(a, n, 1, n, <<(<<>>), (<<>>)>>)

\* sqrt(a) rounded half up to an integer: up exactly when a > r^2 + r
SqrtHalfUp(a) ==
    One({ IF Less(sr[1], sr[2]) THEN Add(sr[1], <<1>>) ELSE sr[1] :
              sr \in {SqrtRem(a)} })

\* b^n for a big b; the exponent is halved so that the nesting stays shallow
RECURSIVE PowBig(_, _)
PowBig(b, n) ==
    IF n = 0 THEN <<1>>
    ELSE IF n % 2 = 1 THEN Mul(b, PowBig(b, n - 1))
    ELSE One({ Mul(h, h) : h \in {PowBig(b, n \div 2)} })

-----------------------------------------------------------------------------
(* JavaScript numbers.  A number the scripts receive is modelled by the    *)
(* decimal that Number.prototype.toString prints for it: m * 10^e with a   *)
(* short integer mantissa m, or one of the non-finite values.              *)

Num(m, e) == [k |-> "num", m |-> m, e |-> e]
NaN == [k |-> "NaN", m |-> 0, e |-> 0]
Infinity == [k |-> "Infinity", m |-> 1, e |-> 0]

IsFinite(n) == n.k \in {"num", "long"}

\* n < 0 where n <= 0 is meant
LessThanZero(n) ==
    CASE n.k = "num" -> n.m < 0
      [] n.k = "Infinity" -> n.m < 0
      [] OTHER -> FALSE

\* n <= 0 as JavaScript evaluates it: every comparison with NaN is false
LeqZero(n) ==
    CASE n.k = "num" -> n.m <= 0
      [] n.k = "Infinity" -> n.m < 0
      [] OTHER -> FALSE

\* the least k with m | 10^k, for a mantissa whose reciprocal is a finite decimal
RECURSIVE RecipDigits(_, _)
RecipDigits(m, k) == IF Pow(10, k) % m = 0 THEN k ELSE RecipDigits(m, k + 1)

Abs(i) == IF i < 0 THEN -i ELSE i
Sign(i) == IF i < 0 THEN -1 ELSE 1

\* m with every factor p divided out
RECURSIVE Strip(_, _)
Strip(m, p) == IF m % p = 0 THEN Strip(m \div p, p) ELSE m

\* 1 / m is a finite decimal
Terminating(m) == Strip(Strip(m, 2), 5) = 1

\* A positive double whose shortest decimal has more digits than a mantissa
\* of the model holds: c * 10^e with the digits c as a big natural.
Long(c, e) == [k |-> "long", m |-> 1, e |-> e, c |-> c]

\* IEEE-754 division 1 / d for an integer d >= 3 that is not a power of two:
\* <<q, b>> with 1 / d rounded to the double q / 2^b, 2^52 <= q <= 2^53,
\* ties to even.
DoubleReciprocal(d) ==
    LET b == CHOOSE x \in 52..84 :
                 /\ Leq(Mul(PowBig(<<2>>, 52), FromInt(d)), PowBig(<<2>>, x))
                 /\ Less(PowBig(<<2>>, x), Mul(PowBig(<<2>>, 53), FromInt(d)))
        T == PowBig(<<2>>, b)
        q0 == DivSmall(T, d)
        r2 == MulSmall(Sub(T, Mul(q0, FromInt(d))), 2)
        up == Less(FromInt(d), r2) \/ (r2 = FromInt(d) /\ q0[1] % 2 = 1)
    IN  <<IF up THEN Add(q0, <<1>>) ELSE q0, b>>

\* Number.prototype.toString of the double q / 2^b = V / 10^b, V = q * 5^b:
\* the fewest significant digits n <= 17 that read back as the same double,
\* that is, the n-digit decimal nearest to V lies within half a unit in the
\* last place, 5^b / 2 in units of 10^-b.
ShortestDecimal(q, b) ==
    LET V == Mul(q, PowBig(<<5>>, b))
        H == PowBig(<<5>>, b)
        L == NumDigits(V)
        Lead(n) == DropDecHalfUp(V, L - n)
        ReadsBack(n) ==
            LET d2 == MulSmall(Dist(ShiftDec(Lead(n), L - n), V), 2)
            IN  Less(d2, H) \/ (d2 = H /\ q[1] % 2 = 0)
        n == CHOOSE x \in 1..17 :
                 ReadsBack(x) /\ \A y \in 1..(x - 1) : ~ReadsBack(y)
    IN  Long(Lead(n), L - n - b)

\* 1 / n.  When the mantissa of n is 2^a * 5^b the reciprocal is a decimal of
\* few digits: IEEE-754 division gives the double nearest to it and toString
\* prints that decimal back.  Otherwise n is a small integer, and the
\* quotient is the double nearest to 1 / n, printed with the digits
\* toString gives it.
JSReciprocal(n) ==
    CASE n.k = "NaN" -> NaN
      [] n.k = "Infinity" -> Num(0, 0)
      [] n.m = 0 -> Infinity
      [] Terminating(Abs(n.m)) ->
            LET k == RecipDigits(Abs(n.m), 0)
            IN  Num(Sign(n.m) * (Pow(10, k) \div Abs(n.m)), -n.e - k)
      [] OTHER ->
            One({ ShortestDecimal(qb[1], qb[2]) :
                      qb \in {DoubleReciprocal(n.m * Pow(10, n.e))} })

-----------------------------------------------------------------------------
(* bignumber.js values: c * 10^e with a big coefficient c >= 0.            *)

DECIMAL_PLACES == 40

BN(c, e) == [c |-> c, e |-> e]

\* new BN(n.toString()) for a finite n >= 0: parsing is exact
BNOfNumber(n) == IF n.k = "long" THEN BN(n.c, n.e) ELSE BN(FromInt(n.m), n.e)

\* new BN(10).pow(d)
BNPow10(d) == BN(<<1>>, d)

\* x.multipliedBy(y): exact
MultipliedBy(x, y) == BN(Mul(x.c, y.c), x.e + y.e)

\* rounding to DECIMAL_PLACES with ROUNDING_MODE ROUND_HALF_UP (the default)
RoundDP(x) ==
    IF x.e >= -DECIMAL_PLACES THEN x
    ELSE BN(DropDecHalfUp(x.c, -DECIMAL_PLACES - x.e), -DECIMAL_PLACES)

\* a division that leaves the dividend as it is
DividedByPow10Skipped(x, y) == RoundDP(x)

\* x.dividedBy(y) for y a power of ten: the quotient rounded to DECIMAL_PLACES
DividedByPow10(x, y) == RoundDP(BN(x.c, x.e - y.e))

\* x.sqrt() for x with at most DECIMAL_PLACES decimals: the correctly rounded
\* square root with DECIMAL_PLACES decimals
Sqrt(x) ==
    BN(SqrtHalfUp(ShiftDec(x.c, x.e + 2 * DECIMAL_PLACES)), -DECIMAL_PLACES)

\* x.integerValue(BN.ROUND_FLOOR) for x >= 0, as a big natural
IntegerValueFloor(x) ==
    IF x.e >= 0 THEN ShiftDec(x.c, x.e) ELSE DropDec(x.c, -x.e)

-----------------------------------------------------------------------------
(* PriceEncoder: scripts/cli/add-liquidity.js                                   *)

\* new BN(2).pow(96)
Q96 == PowBig(<<2>>, 96)

Returned(v) == [ok |-> TRUE, v |-> v]
Thrown == [ok |-> FALSE, v |-> <<>>]

\* A NaN, infinite or negative ratio makes sqrt() yield NaN or Infinity, whose
\* toString() ethers.BigNumber.from rejects by throwing.
calculateSqrtPriceX96Precise(priceRatio, token0Decimals, token1Decimals) ==
    IF ~IsFinite(priceRatio) \/ priceRatio.m < 0 THEN Thrown
    ELSE LET ratio == BNOfNumber(priceRatio)
             token0Factor == BNPow10(token0Decimals)
             token1Factor == BNPow10(token1Decimals)
             baseUnitRatio ==
                 DividedByPow10(MultipliedBy(ratio, token1Factor), token0Factor)
             sqrtPriceTimesQ96 ==
                 IntegerValueFloor(MultipliedBy(Sqrt(baseUnitRatio), BN(Q96, 0)))
         IN  Returned(sqrtPriceTimesQ96)

\* BN.config is a setting of the bignumber.js constructor the whole process
\* shares.  LIBRARY_DECIMAL_PLACES is what the library starts with.
LIBRARY_DECIMAL_PLACES == 20

\* BN.config({ EXPONENTIAL_AT: 999999, DECIMAL_PLACES: 40 }): the
\* configuration a call of the encoder leaves behind
ConfigSet(found) == DECIMAL_PLACES

\* the arithmetic carried out under the configuration the call found
ConfigFound(found) == found

\* The configuration the arithmetic of the encoder runs under: BN.config is
\* its first statement, so it is the one set there, whatever the call found.
ConfigInForce(found) == ConfigSet(found)

\* rounding to dp decimals, ROUND_HALF_UP
RoundTo(dp, x) ==
    IF x.e >= -dp THEN x ELSE BN(DropDecHalfUp(x.c, -dp - x.e), -dp)

\* the encoder with its arithmetic under a configuration of dp decimals
encoderUnder(dp, priceRatio, token0Decimals, token1Decimals) ==
    IF dp = DECIMAL_PLACES
    THEN calculateSqrtPriceX96Precise(priceRatio, token0Decimals, token1Decimals)
    ELSE IF ~IsFinite(priceRatio) \/ priceRatio.m < 0 THEN Thrown
    ELSE LET ratio == BNOfNumber(priceRatio)
             baseUnitRatio ==
                 RoundTo(dp, BN(ratio.c, ratio.e + token1Decimals - token0Decimals))
             root ==
                 BN(SqrtHalfUp(ShiftDec(baseUnitRatio.c, baseUnitRatio.e + 2 * dp)),
                    -dp)
         IN  Returned(IntegerValueFloor(MultipliedBy(root, BN(Q96, 0))))

-----------------------------------------------------------------------------
(* calculateSqrtPriceX96 of scripts/core/create-pool-core.js and of the    *)
(* deploy-pools script (unnamed/part_005)                                  *)

\* A ratio of these functions in units of 10^-5.  The differences they take
\* are compared as decimals: for the ratios of the model two differences
\* compared are either equal as doubles too or far apart.
Scaled(n) == n.m * Pow(10, n.e + 5)
AbsDiff(p, q) == Abs(Scaled(p) - Scaled(q))

\* Q96.mul(k).div(1000)
MulDiv1000(k) == DivSmall(Mul(Q96, FromInt(k)), 1000)

\* Object.entries(ratios): the integer keys in ascending order, then the
\* other keys in the order they were written.  <<key, k>> stands for the
\* entry key: Q96.mul(k).div(1000).
ratios ==
    << <<Num(1, 0), 1000>>, <<Num(2, 0), 1414>>, <<Num(5, 0), 2236>>,
       <<Num(1, 1), 3162>>, <<Num(2, 1), 4472>>, <<Num(5, 1), 7071>>,
       <<Num(1, 2), 10000>>, <<Num(5, -1), 707>>, <<Num(1, -1), 316>>,
       <<Num(5, -2), 224>>, <<Num(1, -2), 100>> >>

\* the loop over the entries from entry i on, with closestRatio and minDiff
RECURSIVE ClosestFrom(_, _, _, _)
ClosestFrom(priceRatio, i, closestRatio, minDiff) ==
    IF i > Len(ratios) THEN closestRatio
    ELSE IF AbsDiff(priceRatio, ratios[i][1]) < minDiff
    THEN ClosestFrom(priceRatio, i + 1, i, AbsDiff(priceRatio, ratios[i][1]))
    ELSE ClosestFrom(priceRatio, i + 1, closestRatio, minDiff)

\* With NaN every diff < minDiff is false, and with Infinity every diff is
\* Infinity, which is not below minDiff = Infinity: closestRatio stays 1.
calculateSqrtPriceX96(priceRatio) ==
    IF ~IsFinite(priceRatio) THEN MulDiv1000(ratios[1][2])
    ELSE MulDiv1000(ratios[ClosestFrom(priceRatio, 1, 1,
                                       AbsDiff(priceRatio, Num(1, 0)))][2])

\* Math.abs(priceRatio - r) < 0.001
Near(priceRatio, r) ==
    IsFinite(priceRatio) /\ AbsDiff(priceRatio, r) < Scaled(Num(1, -3))

\* the chain of thresholds of the deploy-pools script, 1:1 when none matches
calculateSqrtPriceX96DeployPools(priceRatio) ==
    IF Near(priceRatio, Num(1, 0)) THEN Q96
    ELSE IF Near(priceRatio, Num(1, 1)) THEN MulDiv1000(3162)
    ELSE IF Near(priceRatio, Num(2, 1)) THEN MulDiv1000(4472)
    ELSE IF Near(priceRatio, Num(2, 0)) THEN MulDiv1000(1414)
    ELSE IF Near(priceRatio, Num(1, -1)) THEN MulDiv1000(316)
    ELSE IF Near(priceRatio, Num(5, -2)) THEN MulDiv1000(224)
    ELSE IF Near(priceRatio, Num(5, -1)) THEN MulDiv1000(707)
    ELSE Q96

-----------------------------------------------------------------------------
(* Addresses are strings; the model writes them as sequences of their     *)
(* characters.  Chars lists the characters in use in ascending order of   *)
(* their UTF-16 code unit, the order JavaScript's < compares strings by.  *)

Chars == <<"0", "1", "2", "3", "4", "5", "6", "7", "8", "9",
           "A", "B", "C", "D", "E", "F",
           "a", "b", "c", "d", "e", "f", "x">>

CharRank(c) == CHOOSE i \in 1..Len(Chars) : Chars[i] = c

LowerChar(c) ==
    IF c \in {"A", "B", "C", "D", "E", "F"}
    THEN Chars[CharRank(c) + (CharRank("a") - CharRank("A"))]
    ELSE c

\* String.prototype.toLowerCase
toLowerCase(str) == [i \in 1..Len(str) |-> LowerChar(str[i])]

\* s < t for two strings: the first differing code unit decides, a proper
\* prefix is smaller
RECURSIVE StrLess(_, _)
StrLess(str, t) ==
    IF t = <<>> THEN FALSE
    ELSE IF str = <<>> THEN TRUE
    ELSE IF str[1] # t[1] THEN CharRank(str[1]) < CharRank(t[1])
    ELSE StrLess(Tail(str), Tail(t))

\* a comparison of the strings as they are written
sortTokensCaseSensitive(tokenA, tokenB) ==
    IF StrLess(tokenA, tokenB) THEN <<tokenA, tokenB>> ELSE <<tokenB, tokenA>>

\* scripts/core/config.js
sortTokens(tokenA, tokenB) ==
    IF StrLess(toLowerCase(tokenA), toLowerCase(tokenB))
    THEN <<tokenA, tokenB>>
    ELSE <<tokenB, tokenA>>

-----------------------------------------------------------------------------
(* The chain the scripts talk to.  The PRC20 tokens are the ones           *)
(* deployTokens has deployed: each has an address, a symbol and decimals,  *)
(* and two deployments may carry the same symbol.                          *)

PETH == [address |-> <<"0", "x", "A", "1">>, symbol |-> "pETH", decimals |-> 18]
PUSDC == [address |-> <<"0", "x", "b", "2">>, symbol |-> "pUSDC", decimals |-> 6]
PUSDC2 == [address |-> <<"0", "x", "C", "3">>, symbol |-> "pUSDC", decimals |-> 6]

Tokens == {PETH, PUSDC, PUSDC2}

\* config.CONTRACTS.wpush, and TestERC20 tokens as the deploy-pools script
\* deploys them: "TTA" and "TTB" with 18 decimals, at addresses the chain
\* chooses
WPUSH == [address |-> <<"0", "x", "8", "8">>, symbol |-> "WPUSH", decimals |-> 18]
TTA == [address |-> <<"0", "x", "7", "A">>, symbol |-> "TTA", decimals |-> 18]
TTB == [address |-> <<"0", "x", "9", "b">>, symbol |-> "TTB", decimals |-> 18]
TTA2 == [address |-> <<"0", "x", "9", "C">>, symbol |-> "TTA", decimals |-> 18]
TTB2 == [address |-> <<"0", "x", "6", "d">>, symbol |-> "TTB", decimals |-> 18]
TestTokens == {WPUSH, TTA, TTB, TTA2, TTB2}
TokenAddresses == { t.address : t \in Tokens }

\* the contract at an address: new ethers.Contract(address, ABIS.prc20, signer)
Contract(address) ==
    CHOOSE t \in Tokens \cup TestTokens :
        toLowerCase(t.address) = toLowerCase(address)

\* A pool is known by the key the factory files it under.
PoolKey(token0, token1, fee) == <<token0, token1, fee>>
AddressZero == <<>>

\* a factory that knows no pool
getPoolNone(poolsNow, token0, token1, fee) == AddressZero

\* factory.getPool(token0, token1, fee): the pool, AddressZero when none
getPool(poolsNow, token0, token1, fee) ==
    IF PoolKey(token0, token1, fee) \in DOMAIN poolsNow
    THEN PoolKey(token0, token1, fee) ELSE AddressZero

-----------------------------------------------------------------------------
(* TickRangePlanner: the tick arithmetic of addLiquidityToPool and         *)
(* addFullRangeLiquidity.                                                  *)

MIN_TICK == -887272
MAX_TICK == 887272

\* the spacings given to the wrong tiers
TickSpacingShifted(fee) == IF fee = 500 THEN 60 ELSE IF fee = 3000 THEN 200 ELSE 10

\* const tickSpacing = fee === 500 ? 10 : fee === 3000 ? 60 : 200;
TickSpacing(fee) == IF fee = 500 THEN 10 ELSE IF fee = 3000 THEN 60 ELSE 200

\* const baseTickRange = fee === 500 ? 2000 : fee === 3000 ? 5000 : 10000;
BaseTickRange(fee) == IF fee = 500 THEN 2000 ELSE IF fee = 3000 THEN 5000 ELSE 10000

\* a window of no width around the current tick
TickRangeNone(fee) == 0

\* Math.max(baseTickRange, tickSpacing * 50)
TickRange(fee) == Max2(BaseTickRange(fee), TickSpacing(fee) * 50)

\* a bound left where it falls, off the spacing grid
FloorToSkipped(x, sp) == x

\* the lower bound moved one spacing further out than the grid asks for
FloorToWide(x, sp) == ((x \div sp) - 1) * sp

\* Math.floor(x / s) * s and Math.ceil(x / s) * s for integers x and s > 0
FloorTo(x, sp) == (x \div sp) * sp

\* the upper bound rounded down, as the lower bound is
CeilToDown(x, sp) == FloorTo(x, sp)

CeilTo(x, sp) == -(((-x) \div sp) * sp)

\* the window of addLiquidityToPool for a pool of this fee at this tick
tickWindow(fee, currentTick) ==
    [tickSpacing |-> TickSpacing(fee),
     tickLower |-> FloorTo(currentTick - TickRange(fee), TickSpacing(fee)),
     tickUpper |-> CeilTo(currentTick + TickRange(fee), TickSpacing(fee))]

\* ethers.utils.parseUnits(amount, decimals)
parseUnits(amount, decimals) == BN(FromInt(amount), decimals)

-----------------------------------------------------------------------------
(* contracts/PRC20.sol.  A contract's storage is a record; a call works on  *)
(* the storage of all contracts, since withdraw calls into the gas token,  *)
(* and answers [ok, st]: a call that reverts leaves no storage changed.    *)

\* type(uint256).max, ethers.constants.MaxUint256: 2^256 - 1
MaxUint256 ==
    <<9935, 2963, 9131, 4007, 5758, 394, 564, 6564, 9846, 3269,
      785, 6879, 5008, 7098, 4235, 6195, 3731, 892, 5792, 11>>

\* a + b and a - b in uint256 inside unchecked { }: the result wraps
UncheckedAdd(a, b) ==
    LET sum == Add(a, b)
    IN  IF Leq(sum, MaxUint256) THEN sum ELSE Sub(Sub(sum, MaxUint256), <<1>>)

UncheckedSub(a, b) ==
    IF Leq(b, a) THEN Sub(a, b) ELSE Sub(Add(Add(a, MaxUint256), <<1>>), b)

UNIVERSAL_EXECUTOR_MODULE == <<"0", "x", "U", "E">>
HANDLER_CONTRACT == <<"0", "x", "H", "C">>
SIGNER == <<"0", "x", "5", "1">>
POSITION_MANAGER == <<"0", "x", "P", "M">>
SWAP_ROUTER == <<"0", "x", "5", "R">>

\* the accounts a PRC20 keeps books for, address(0) among them
Accounts ==
    {AddressZero, UNIVERSAL_EXECUTOR_MODULE, HANDLER_CONTRACT, SIGNER,
     POSITION_MANAGER, SWAP_ROUTER} \cup TokenAddresses

\* the storage after the constructor: no supply, no balance, no allowance
NewPRC20 ==
    [_totalSupply |-> <<>>,
     _balances |-> [a \in Accounts |-> <<>>],
     _allowances |-> [a \in Accounts |-> [b \in Accounts |-> <<>>]],
     GAS_LIMIT |-> <<1>>,
     PC_PROTOCOL_FEE |-> <<>>]

Deployed == [c \in TokenAddresses |-> NewPRC20]

Reverted(st) == [ok |-> FALSE, st |-> st]
Done(st) == [ok |-> TRUE, st |-> st]

_transfer(st, self, sender, recipient, amount) ==
    IF sender = AddressZero \/ recipient = AddressZero THEN Reverted(st)
    ELSE IF Less(st[self]._balances[sender], amount) THEN Reverted(st)
    ELSE LET debited == [st EXCEPT ![self]._balances[sender] = Sub(@, amount)]
         IN  Done([debited EXCEPT
                      ![self]._balances[recipient] = UncheckedAdd(@, amount)])

_mint(st, self, account, amount) ==
    IF account = AddressZero THEN Reverted(st)
    ELSE IF amount = <<>> THEN Reverted(st)
    ELSE Done([st EXCEPT
                  ![self]._totalSupply = UncheckedAdd(@, amount),
                  ![self]._balances[account] = UncheckedAdd(@, amount)])

_burn(st, self, account, amount) ==
    IF account = AddressZero THEN Reverted(st)
    ELSE IF amount = <<>> THEN Reverted(st)
    ELSE IF Less(st[self]._balances[account], amount) THEN Reverted(st)
    ELSE Done([st EXCEPT
                  ![self]._balances[account] = Sub(@, amount),
                  ![self]._totalSupply = UncheckedSub(@, amount)])

transfer(st, self, msgSender, recipient, amount) ==
    _transfer(st, self, msgSender, recipient, amount)

approve(st, self, msgSender, spender, amount) ==
    IF spender = AddressZero THEN Reverted(st)
    ELSE Done([st EXCEPT ![self]._allowances[msgSender][spender] = amount])

transferFrom(st, self, msgSender, sender, recipient, amount) ==
    LET moved == _transfer(st, self, sender, recipient, amount)
    IN  IF ~moved.ok THEN Reverted(st)
        ELSE IF Less(moved.st[self]._allowances[sender][msgSender], amount)
        THEN Reverted(st)
        ELSE Done([moved.st EXCEPT
                      ![self]._allowances[sender][msgSender] = Sub(@, amount)])

burn(st, self, msgSender, amount) == _burn(st, self, msgSender, amount)

deposit(st, self, msgSender, to, amount) ==
    IF msgSender # HANDLER_CONTRACT /\ msgSender # UNIVERSAL_EXECUTOR_MODULE
    THEN Reverted(st)
    ELSE _mint(st, self, to, amount)

\* withdrawGasFee.  handler is what HANDLER_CONTRACT answers for
\* SOURCE_CHAIN_ID: gasToken, a PRC20 or address(0), and price.  The sum
\* is checked arithmetic and does not overflow for the values of the model.
withdrawGasFee(st, self, handler) ==
    IF handler.gasToken = AddressZero THEN [ok |-> FALSE]
    ELSE IF handler.price = <<>> THEN [ok |-> FALSE]
    ELSE [ok |-> TRUE, gasToken |-> handler.gasToken,
          gasFee |-> Add(Mul(handler.price, st[self].GAS_LIMIT),
                         st[self].PC_PROTOCOL_FEE)]

\* withdraw: the gas token, which may be this contract, sees this contract
\* as msg.sender of transferFrom
withdraw(st, self, msgSender, amount, handler) ==
    LET fee == withdrawGasFee(st, self, handler)
        paid == transferFrom(st, fee.gasToken, self, msgSender,
                             UNIVERSAL_EXECUTOR_MODULE, fee.gasFee)
        burnt == _burn(paid.st, self, msgSender, amount)
    IN  IF ~fee.ok THEN Reverted(st)
        ELSE IF ~paid.ok THEN Reverted(st)
        ELSE IF ~burnt.ok THEN Reverted(st)
        ELSE burnt

NoTx == [count |-> 0, reverted |-> FALSE]

-----------------------------------------------------------------------------
VARIABLES
    pc,         \* "call": a function is about to be applied; "done": it returned
    call,       \* the function and its arguments
    ret,        \* what the call returned
    seen,       \* the calls one process has made: call |-> [ret, times]
    bnConfig,   \* DECIMAL_PLACES of the bignumber.js the process has loaded
    pools,      \* the factory's pools: key |-> [initialized, sqrtPriceX96]
    run,        \* the command the process is running, with what it did so far
    prc20,      \* the PRC20 contracts: address |-> storage
    lastTx      \* the last transaction sent to a PRC20 and how many were sent

pureVars == <<pc, call, ret, seen>>
chainVars == <<pools, run>>
tokenVars == <<prc20, lastTx>>
vars == <<pc, call, ret, seen, bnConfig, pools, run, prc20, lastTx>>

\* What a command records.  calls is the sequence of external calls made.
NoRun ==
    [op |-> "none", threw |-> FALSE, error |-> "", calls |-> <<>>,
     tokenA |-> <<>>, tokenB |-> <<>>, priceRatio |-> NaN, fee |-> 0,
     pool |-> AddressZero, created |-> FALSE, initialized |-> FALSE,
     token0 |-> <<>>, token1 |-> <<>>, inverted |-> FALSE,
     actualPriceRatio |-> NaN, token0Decimals |-> 0, token1Decimals |-> 0,
     encoded |-> FALSE, sqrtPriceX96 |-> <<>>,
     currentTick |-> 0, tickSpacing |-> 0, tickLower |-> 0, tickUpper |-> 0,
     amount0Desired |-> BN(<<>>, 0), amount1Desired |-> BN(<<>>, 0),
     mintSubmitted |-> FALSE, minted |-> FALSE,
     decimalsReadable |-> TRUE,
     tickLowerOption |-> <<>>, tickUpperOption |-> <<>>, force |-> FALSE,
     inputAmount0 |-> 0, inputAmount1 |-> 0, approvals |-> <<>>,
     swapSubmitted |-> FALSE, initializeSent |-> <<>>]

Throw(r, message) == [r EXCEPT !.threw = TRUE, !.error = message]
Called(r, names) == [r EXCEPT !.calls = @ \o names]

-----------------------------------------------------------------------------
(* What the chain answers.  A transaction may revert for reasons outside   *)
(* the scripts; a pool's current tick moves with every swap; an allowance  *)
(* is whatever earlier approvals left.  env collects these answers:        *)
(*   factoryOk, initOk, mintOk : the transaction is mined without revert   *)
(*   currentTick               : slot0.tick of the pool read               *)
(*   allowance0, allowance1    : the allowance read: "none", "exact" (the  *)
(*                               amount asked for) or "max"                *)
(*   approve0Ok, approve1Ok    : an approve sent is mined without revert   *)
(*   decimalsOk                : the tokens answer decimals(), which a     *)
(*                               token need not implement                  *)

\* the amount of a BigNumber in base units
Units(amount) == ShiftDec(amount.c, amount.e)

\* tokenContract.allowance(signerAddress, spenderAddress) as the chain answers
AllowanceRead(answer, amount) ==
    IF answer = "none" THEN <<>>
    ELSE IF answer = "exact" THEN Units(amount)
    ELSE MaxUint256

\* an allowance equal to the amount taken for one below it
lte(x, y) == Leq(x, y)

\* currentAllowance.lt(amount)
lt(x, y) == Less(x, y)

\* safeApprove.  Each call is noted in approvals with the allowance read
\* and the allowance the token holds when safeApprove is left, which the
\* approve of the PRC20 sets when it is mined.
safeApprove(r, tokenContract, spenderAddress, amount, signerAddress, answer, approveOk) ==
    LET currentAllowance == AllowanceRead(answer, amount)
        note == [token |-> tokenContract, spender |-> spenderAddress,
                 amount |-> Units(amount), read |-> currentAllowance,
                 sent |-> FALSE, returned |-> TRUE, after |-> currentAllowance]
        maxApproval == MaxUint256
        approved == approve(Deployed, tokenContract, signerAddress,
                            spenderAddress, maxApproval)
    IN  IF ~lt(currentAllowance, Units(amount))
        THEN [Called(r, <<"allowance">>) EXCEPT !.approvals = Append(@, note)]
        ELSE IF approveOk /\ approved.ok
        THEN [Called(r, <<"allowance", "approve">>)
                 EXCEPT !.approvals =
                     Append(@, [note EXCEPT
                         !.sent = TRUE,
                         !.after = approved.st[tokenContract]
                                       ._allowances[signerAddress][spenderAddress]])]
        ELSE Throw([Called(r, <<"allowance", "approve">>)
                       EXCEPT !.approvals =
                           Append(@, [note EXCEPT !.sent = TRUE,
                                                  !.returned = FALSE])],
                   "Approval failed")

\* positionManager.mint reverts unless the pool of the mint parameters
\* exists and is initialized
MintAccepted(poolsNow, token0, token1, fee, env) ==
    /\ env.mintOk
    /\ PoolKey(token0, token1, fee) \in DOMAIN poolsNow
    /\ poolsNow[PoolKey(token0, token1, fee)].initialized

\* the amounts left in the order the caller gave them
poolAmountsInputOrder(straight, inputAmount0Parsed, inputAmount1Parsed) == <<inputAmount0Parsed, inputAmount1Parsed>>

\* Map input amounts to sorted pool token amounts
poolAmounts(straight, inputAmount0Parsed, inputAmount1Parsed) ==
    IF straight THEN <<inputAmount0Parsed, inputAmount1Parsed>>
    ELSE <<inputAmount1Parsed, inputAmount0Parsed>>

addLiquidityToPool(r, poolsNow, poolAddress, inputToken0Address, inputToken1Address, inputAmount0, inputAmount1, env) ==
    LET inputDecimals0 == Contract(inputToken0Address).decimals
        inputDecimals1 == Contract(inputToken1Address).decimals
        inputAmount0Parsed == parseUnits(inputAmount0, inputDecimals0)
        inputAmount1Parsed == parseUnits(inputAmount1, inputDecimals1)
        sorted == sortTokens(inputToken0Address, inputToken1Address)
        sortedToken0 == sorted[1]
        sortedToken1 == sorted[2]
        straight == toLowerCase(sortedToken0) = toLowerCase(inputToken0Address)
        poolAmount0Desired ==
            poolAmounts(straight, inputAmount0Parsed, inputAmount1Parsed)[1]
        poolAmount1Desired ==
            poolAmounts(straight, inputAmount0Parsed, inputAmount1Parsed)[2]
        fee == poolAddress[3]
        currentTick == env.currentTick
        tickSpacing == TickSpacing(fee)
        tickRange == TickRange(fee)
        tickLower == FloorTo(currentTick - tickRange, tickSpacing)
        tickUpper == CeilTo(currentTick + tickRange, tickSpacing)
        read ==
            [Called(r, <<"decimals", "decimals", "symbol", "symbol",
                         "balanceOf", "balanceOf", "symbol", "symbol",
                         "decimals", "decimals">>)
                EXCEPT !.inputAmount0 = inputAmount0,
                       !.inputAmount1 = inputAmount1]
        approved0 == safeApprove(read, sortedToken0, POSITION_MANAGER,
                                 poolAmount0Desired, SIGNER,
                                 env.allowance0, env.approve0Ok)
        approved == safeApprove(approved0, sortedToken1, POSITION_MANAGER,
                                poolAmount1Desired, SIGNER,
                                env.allowance1, env.approve1Ok)
        planned ==
            [Called(approved, <<"pool.fee", "pool.slot0", "positionManager.mint">>)
                EXCEPT !.token0 = sortedToken0, !.token1 = sortedToken1,
                       !.fee = fee, !.currentTick = currentTick,
                       !.tickSpacing = tickSpacing,
                       !.tickLower = tickLower, !.tickUpper = tickUpper,
                       !.amount0Desired = poolAmount0Desired,
                       !.amount1Desired = poolAmount1Desired,
                       !.mintSubmitted = TRUE]
    IN  IF approved0.threw THEN approved0
        ELSE IF approved.threw THEN approved
        ELSE IF MintAccepted(poolsNow, sortedToken0, sortedToken1, fee, env)
        THEN Called([planned EXCEPT !.minted = TRUE], <<"balanceOf", "balanceOf">>)
        ELSE Throw(planned, "Position minting failed")

\* the widest spacing taken for every tier
FullRangeTickSpacingCoarse(fee) == 200

\* const tickSpacing = fee === 500 ? 10 : fee === 3000 ? 60 : 200;
FullRangeTickSpacing(fee) ==
    IF fee = 500 THEN 10 ELSE IF fee = 3000 THEN 60 ELSE 200

addFullRangeLiquidity(r, poolsNow, poolAddress, amount0, amount1, env) ==
    LET token0 == poolAddress[1]
        token1 == poolAddress[2]
        fee == poolAddress[3]
        decimals0 == Contract(token0).decimals
        decimals1 == Contract(token1).decimals
        amount0Parsed == parseUnits(amount0, decimals0)
        amount1Parsed == parseUnits(amount1, decimals1)
        tickSpacing == FullRangeTickSpacing(fee)
        tickLower == CeilTo(MIN_TICK, tickSpacing)
        tickUpper == FloorTo(MAX_TICK, tickSpacing)
        read == Called(r, <<"pool.token0", "pool.token1", "pool.fee",
                            "decimals", "decimals", "symbol", "symbol">>)
        approved0 == safeApprove(read, token0, POSITION_MANAGER, amount0Parsed,
                                 SIGNER, env.allowance0, env.approve0Ok)
        approved == safeApprove(approved0, token1, POSITION_MANAGER, amount1Parsed,
                                SIGNER, env.allowance1, env.approve1Ok)
        planned ==
            [Called(approved, <<"positionManager.mint">>)
                EXCEPT !.token0 = token0, !.token1 = token1, !.fee = fee,
                       !.tickSpacing = tickSpacing,
                       !.tickLower = tickLower, !.tickUpper = tickUpper,
                       !.amount0Desired = amount0Parsed,
                       !.amount1Desired = amount1Parsed,
                       !.mintSubmitted = TRUE]
    IN  IF approved0.threw THEN approved0
        ELSE IF approved.threw THEN approved
        ELSE IF MintAccepted(poolsNow, token0, token1, fee, env)
        THEN [planned EXCEPT !.minted = TRUE]
        ELSE Throw(planned, "transaction failed")

\* performSwap.  No token of the model is WPUSH.  The swap is sent with
\* amountOutMinimum 0; what it pays out is the business of the router.
performSwap(r, poolAddress, tokenInAddress, tokenOutAddress, amountIn, env) ==
    LET decimalsIn == Contract(tokenInAddress).decimals
        amountInParsed == parseUnits(amountIn, decimalsIn)
        read == [Called(r, <<"decimals", "decimals", "symbol", "symbol",
                             "balanceOf", "balanceOf">>)
                    EXCEPT !.token0 = tokenInAddress, !.token1 = tokenOutAddress,
                           !.inputAmount0 = amountIn,
                           !.amount0Desired = amountInParsed]
        approved == safeApprove(read, tokenInAddress, SWAP_ROUTER, amountInParsed,
                                SIGNER, env.allowance0, env.approve0Ok)
        sent == [Called(approved, <<"pool.fee", "swapRouter.exactInputSingle">>)
                    EXCEPT !.fee = poolAddress[3], !.swapSubmitted = TRUE]
    IN  IF approved.threw THEN approved
        ELSE IF ~env.swapOk THEN Throw(sent, "transaction failed")
        ELSE Called(sent, <<"balanceOf", "balanceOf">>)

-----------------------------------------------------------------------------
(* scripts/core/add-liquidity-core.js                                      *)

\* An option of the options object is <<>> when it is undefined and <<v>>
\* when it holds v.  option || fallback: undefined and 0 are both falsy.
OrDefault(option, fallback) ==
    IF option = <<>> \/ option = <<0>> THEN fallback ELSE option[1]

\* the fee of the core scripts: fixed in addLiquidity, the default of createPool
CORE_FEE == 3000
DEFAULT_TICK_LOWER == -887220
DEFAULT_TICK_UPPER == 887220
DEFAULT_AMOUNT == 100

\* addLiquidity of add-liquidity-core.js.  The pool is the one of
\* options.poolAddress, else the fee-3000 pool of options.token0 and
\* options.token1, else the first pool listed in test-addresses.json
\* (env.firstPool, AddressZero when the file lists none).  No token of the
\* model is WPUSH, so a balance that is short is an error, never a deposit.
addLiquidityCore(r, poolsNow, options, env) ==
    LET byAddress == options.poolAddress # AddressZero
        byTokens == ~byAddress /\ options.token0 # <<>> /\ options.token1 # <<>>
        sorted == sortTokens(options.token0, options.token1)
        poolAddress ==
            IF byAddress THEN options.poolAddress
            ELSE IF byTokens THEN PoolKey(sorted[1], sorted[2], CORE_FEE)
            ELSE env.firstPool
        token0Address == IF byTokens THEN sorted[1] ELSE poolAddress[1]
        token1Address == IF byTokens THEN sorted[2] ELSE poolAddress[2]
        amount0Desired ==
            IF options.amount0 = <<>> THEN parseUnits(DEFAULT_AMOUNT, 18)
            ELSE parseUnits(options.amount0[1], 18)
        amount1Desired ==
            IF options.amount1 = <<>> THEN parseUnits(DEFAULT_AMOUNT, 18)
            ELSE parseUnits(options.amount1[1], 18)
        started == [r EXCEPT !.tickLowerOption = options.tickLower,
                             !.tickUpperOption = options.tickUpper]
        looked ==
            Called(started,
                   IF byAddress THEN <<"pool.token0", "pool.token1">>
                   ELSE IF byTokens THEN <<"factory.getPool">>
                   ELSE <<>>)
        chosen == [looked EXCEPT !.pool = poolAddress, !.token0 = token0Address,
                                 !.token1 = token1Address, !.fee = CORE_FEE]
        read == Called(chosen, <<"symbol", "symbol", "balanceOf", "balanceOf">>)
        planned ==
            [Called(read, <<"approve", "approve", "positionManager.mint">>)
                EXCEPT !.tickLower = OrDefault(options.tickLower, DEFAULT_TICK_LOWER),
                       !.tickUpper = OrDefault(options.tickUpper, DEFAULT_TICK_UPPER),
                       !.amount0Desired = amount0Desired,
                       !.amount1Desired = amount1Desired,
                       !.mintSubmitted = TRUE]
    IN  IF ~env.fileExists
        THEN Throw(started, "test-addresses.json not found")
        ELSE IF byTokens /\ poolAddress \notin DOMAIN poolsNow
        THEN Throw(looked, "Pool not found for the specified tokens")
        ELSE IF poolAddress = AddressZero
        THEN Throw(looked, "TypeError")
        ELSE IF ~env.balance0Enough \/ ~env.balance1Enough
        THEN Throw(read, "Insufficient balance")
        ELSE IF MintAccepted(poolsNow, token0Address, token1Address, CORE_FEE, env)
        THEN [planned EXCEPT !.minted = TRUE]
        ELSE Throw(planned, "transaction failed")

-----------------------------------------------------------------------------
\* the price computed with the decimals of the tokens in input order
createPoolPriceInputOrder(token0Address, token1Address, priceRatio) ==
    LET sorted == sortTokens(token0Address, token1Address)
        swapped ==
            /\ Contract(token0Address).symbol = Contract(sorted[2]).symbol
            /\ Contract(token1Address).symbol = Contract(sorted[1]).symbol
        actualPriceRatio ==
            IF swapped THEN JSReciprocal(priceRatio) ELSE priceRatio
        token0Decimals == Contract(token0Address).decimals
        token1Decimals == Contract(token1Address).decimals
    IN  [inverted |-> swapped, actualPriceRatio |-> actualPriceRatio,
         token0Decimals |-> token0Decimals, token1Decimals |-> token1Decimals,
         sqrtPriceX96 |-> calculateSqrtPriceX96Precise(
                              actualPriceRatio, token0Decimals, token1Decimals)]

\* createPool, lines 814-860: what createPool computes between creating the
\* pool and initializing it.  The ratio is inverted when the symbols of
\* the input tokens are those of the sorted tokens in the other order.
createPoolPrice(token0Address, token1Address, priceRatio) ==
    LET sorted == sortTokens(token0Address, token1Address)
        token0 == sorted[1]
        token1 == sorted[2]
        inputSymbol0 == Contract(token0Address).symbol
        inputSymbol1 == Contract(token1Address).symbol
        sortedSymbol0 == Contract(token0).symbol
        sortedSymbol1 == Contract(token1).symbol
        swapped == inputSymbol0 = sortedSymbol1 /\ inputSymbol1 = sortedSymbol0
        actualPriceRatio ==
            IF swapped THEN JSReciprocal(priceRatio) ELSE priceRatio
        token0Decimals == Contract(token0).decimals
        token1Decimals == Contract(token1).decimals
    IN  [inverted |-> swapped, actualPriceRatio |-> actualPriceRatio,
         token0Decimals |-> token0Decimals, token1Decimals |-> token1Decimals,
         sqrtPriceX96 |-> calculateSqrtPriceX96Precise(
                              actualPriceRatio, token0Decimals, token1Decimals)]

\* createPool up to the point where liquidity is added.  price is
\* createPoolPrice of the same arguments, which the handler reaches only
\* after factory.createPool has succeeded.  The entry the handler then
\* writes to test-addresses.json is a log of the run and is left out.
createPool(poolsNow, token0Address, token1Address, priceRatio, fee, price, env) ==
    LET started == [NoRun EXCEPT !.op = "createPool", !.tokenA = token0Address,
                                 !.tokenB = token1Address,
                                 !.priceRatio = priceRatio, !.fee = fee,
                                 !.decimalsReadable = env.decimalsOk]
        sorted == sortTokens(token0Address, token1Address)
        token0 == sorted[1]
        token1 == sorted[2]
        poolAddress == PoolKey(token0, token1, fee)
        looked == Called([started EXCEPT !.token0 = token0, !.token1 = token1],
                         <<"factory.getPool">>)
        found == [looked EXCEPT !.pool = poolAddress]
        sent == Called(looked, <<"factory.createPool">>)
        poolsCreated == poolsNow @@ (poolAddress :> [initialized |-> FALSE])
        named ==
            [Called(sent, <<"symbol", "symbol", "symbol", "symbol", "decimals">>)
                EXCEPT !.pool = poolAddress, !.created = TRUE,
                       !.inverted = price.inverted,
                       !.actualPriceRatio = price.actualPriceRatio]
        priced ==
            [Called(sent, <<"symbol", "symbol", "symbol", "symbol",
                            "decimals", "decimals">>)
                EXCEPT !.pool = poolAddress, !.created = TRUE,
                       !.inverted = price.inverted,
                       !.actualPriceRatio = price.actualPriceRatio,
                       !.token0Decimals = price.token0Decimals,
                       !.token1Decimals = price.token1Decimals]
        encoded ==
            [Called(priced, <<"pool.initialize">>)
                EXCEPT !.encoded = TRUE, !.sqrtPriceX96 = price.sqrtPriceX96.v,
                       !.initializeSent =
                           <<[pool |-> poolAddress,
                              sqrtPriceX96 |-> price.sqrtPriceX96.v]>>]
        poolsInitialized == [poolsCreated EXCEPT ![poolAddress].initialized = TRUE]
        saved == Called([encoded EXCEPT !.initialized = TRUE],
                        <<"pool.slot0", "symbol", "symbol">>)
    IN  IF LeqZero(priceRatio)
        THEN [run |-> Throw(started, "Price ratio must be positive"),
              pools |-> poolsNow]
        ELSE IF getPool(poolsNow, token0, token1, fee) # AddressZero
        THEN [run |-> found, pools |-> poolsNow]
        ELSE IF ~env.factoryOk
        THEN [run |-> Throw(sent, "transaction failed"), pools |-> poolsNow]
        ELSE IF ~env.decimalsOk
        THEN [run |-> Throw(named, "call revert exception"),
              pools |-> poolsCreated]
        ELSE IF ~price.sqrtPriceX96.ok
        THEN [run |-> Throw(priced, "invalid BigNumber string"),
              pools |-> poolsCreated]
        ELSE IF price.sqrtPriceX96.v = <<>> \/ ~env.initOk
        THEN [run |-> Throw(encoded, "transaction failed"), pools |-> poolsCreated]
        ELSE [run |-> saved, pools |-> poolsInitialized]

-----------------------------------------------------------------------------
(* scripts/core/create-pool-core.js                                        *)

\* if (options.priceRatio): undefined, 0 and NaN are falsy
Truthy(option) == option # <<>> /\ option[1] # Num(0, 0) /\ option[1] # NaN

\* createPool of create-pool-core.js.  factory.createPool reverts for a pool
\* that exists, which options.force runs into.  The symbols are read inside
\* try/catch and a failure to write test-addresses.json is only logged.
createPoolCore(poolsNow, options, env) ==
    LET started == [NoRun EXCEPT !.op = "core.createPool",
                                 !.tokenA = options.token0,
                                 !.tokenB = options.token1,
                                 !.force = options.force,
                                 !.priceRatio =
                                     IF options.priceRatio = <<>> THEN NaN
                                     ELSE options.priceRatio[1],
                                 !.decimalsReadable = env.decimalsOk]
        sorted == sortTokens(options.token0, options.token1)
        fee == OrDefault(options.fee, CORE_FEE)
        poolAddress == PoolKey(sorted[1], sorted[2], fee)
        looked ==
            [Called(started, <<"factory.getPool">>)
                EXCEPT !.token0 = sorted[1], !.token1 = sorted[2], !.fee = fee]
        found == [looked EXCEPT !.pool = poolAddress]
        sent == Called(looked, <<"factory.createPool">>)
        poolsCreated == poolsNow @@ (poolAddress :> [initialized |-> FALSE])
        made == [sent EXCEPT !.pool = poolAddress, !.created = TRUE]
        encoded ==
            [Called(made, <<"pool.slot0", "pool.initialize">>)
                EXCEPT !.actualPriceRatio = options.priceRatio[1],
                       !.encoded = TRUE,
                       !.sqrtPriceX96 = calculateSqrtPriceX96(options.priceRatio[1]),
                       !.initializeSent =
                           <<[pool |-> poolAddress,
                              sqrtPriceX96 |->
                                  calculateSqrtPriceX96(options.priceRatio[1])]>>]
        poolsInitialized == [poolsCreated EXCEPT ![poolAddress].initialized = TRUE]
    IN  IF options.token0 = <<>> \/ options.token1 = <<>>
        THEN [run |-> Throw(started, "Both token0 and token1 addresses are required."),
              pools |-> poolsNow]
        ELSE IF getPool(poolsNow, sorted[1], sorted[2], fee) # AddressZero
                /\ ~options.force
        THEN [run |-> found, pools |-> poolsNow]
        ELSE IF poolAddress \in DOMAIN poolsNow \/ ~env.factoryOk
        THEN [run |-> Throw(sent, "transaction failed"), pools |-> poolsNow]
        ELSE IF ~Truthy(options.priceRatio)
        THEN [run |-> Called(made, <<"symbol", "symbol">>), pools |-> poolsCreated]
        ELSE IF ~env.initOk
        THEN [run |-> Throw(encoded, "transaction failed"), pools |-> poolsCreated]
        ELSE [run |-> Called([encoded EXCEPT !.initialized = TRUE],
                             <<"symbol", "symbol">>),
              pools |-> poolsInitialized]

-----------------------------------------------------------------------------
\* Bounds of the encoder's inputs
MaxK == 3

Squares == { Num(k * k, 0) : k \in 1..MaxK }
EncRatios ==
    Squares \cup
    { Num(2, 0), Num(3, 0), Num(4, 3), Num(25, -2), Num(25, -5), Num(5, -1),
      Num(1, -15), Num(1, -16), Num(5, -29), Num(1, -30), Num(15, -30),
      Num(123456789, -23), Num(1, 21) }
EncDecimals == {0, 6, 18}

Addresses ==
    { <<"0", "x", "A", "1">>, <<"0", "x", "a", "1">>, <<"0", "x", "b", "2">>,
      <<"0", "x", "B", "2">>, <<"0", "x", "C", "3">>, <<"0", "x", "c", "3">>,
      <<"0", "x", "a", "B">>, <<"0", "x", "A", "b">>, <<"0", "x", "1", "f">>,
      <<"0", "x", "F", "0">>, <<"0", "x", "F">> }

EncCalls ==
    [fn : {"calculateSqrtPriceX96Precise"}, priceRatio : EncRatios,
     token0Decimals : EncDecimals, token1Decimals : EncDecimals]
SortCalls == [fn : {"sortTokens"}, tokenA : Addresses, tokenB : Addresses]

\* ratios in and out of the table, a tie between 1 and 2, and non-numbers
TableRatios ==
    { Num(1, 0), Num(2, 0), Num(5, -2), Num(3, 0), Num(15, -1), Num(4, 3),
      Num(25, -5), Num(10005, -4), Num(-4, 0), Num(0, 0), NaN, Infinity }
TableCalls ==
    [fn : {"calculateSqrtPriceX96", "deployPools.calculateSqrtPriceX96"},
     priceRatio : TableRatios]

InitPure ==
    /\ pc = "call"
    /\ call \in EncCalls \cup SortCalls \cup TableCalls
    /\ ret = <<>>
    /\ seen = <<>>
    /\ bnConfig = LIBRARY_DECIMAL_PLACES
    /\ prc20 = Deployed
    /\ lastTx = NoTx
    /\ pools = <<>>
    /\ run = NoRun

Encode ==
    /\ pc = "call"
    /\ call.fn = "calculateSqrtPriceX96Precise"
    /\ pc' = "done"
    /\ bnConfig' = ConfigSet(bnConfig)
    /\ ret' = calculateSqrtPriceX96Precise(call.priceRatio, call.token0Decimals,
                                           call.token1Decimals)
    /\ UNCHANGED <<call, seen, chainVars>>
    /\ UNCHANGED tokenVars

Sort ==
    /\ pc = "call"
    /\ call.fn = "sortTokens"
    /\ pc' = "done"
    /\ ret' = sortTokens(call.tokenA, call.tokenB)
    /\ UNCHANGED <<call, seen, bnConfig, chainVars>>
    /\ UNCHANGED tokenVars

EncodeClosest ==
    /\ pc = "call"
    /\ call.fn = "calculateSqrtPriceX96"
    /\ pc' = "done"
    /\ ret' = Returned(calculateSqrtPriceX96(call.priceRatio))
    /\ UNCHANGED <<call, seen, bnConfig, chainVars>>
    /\ UNCHANGED tokenVars

EncodeThreshold ==
    /\ pc = "call"
    /\ call.fn = "deployPools.calculateSqrtPriceX96"
    /\ pc' = "done"
    /\ ret' = Returned(calculateSqrtPriceX96DeployPools(call.priceRatio))
    /\ UNCHANGED <<call, seen, bnConfig, chainVars>>
    /\ UNCHANGED tokenVars

NextPure == Encode \/ Sort \/ EncodeClosest \/ EncodeThreshold

SpecPure == InitPure /\ [][NextPure]_vars

-----------------------------------------------------------------------------
(* One process that calls the functions again and again, in any order      *)

\* Bound on how often the process makes the same call
MaxTimes == 2

RepeatCalls ==
    { [fn |-> "calculateSqrtPriceX96Precise", priceRatio |-> Num(1, -15),
       token0Decimals |-> 18, token1Decimals |-> 0],
      [fn |-> "calculateSqrtPriceX96Precise", priceRatio |-> Num(4, 3),
       token0Decimals |-> 18, token1Decimals |-> 6] }
    \cup [fn : {"tickWindow"}, fee : {500, 3000}, currentTick : {-193377}]
    \cup [fn : {"sortTokens"}, tokenA : {PUSDC.address}, tokenB : {PETH.address}]

Times(c) == IF c \in DOMAIN seen THEN seen[c].times ELSE 0

\* the call c has returned r
Noted(c, r) ==
    IF c \in DOMAIN seen THEN [seen EXCEPT ![c].times = @ + 1]
    ELSE seen @@ (c :> [ret |-> r, times |-> 1])

InitRepeat ==
    /\ pc = "idle"
    /\ call = <<>>
    /\ ret = <<>>
    /\ seen = <<>>
    /\ bnConfig = LIBRARY_DECIMAL_PLACES
    /\ prc20 = Deployed
    /\ lastTx = NoTx
    /\ pools = <<>>
    /\ run = NoRun

RepeatEncode ==
    /\ \E c \in RepeatCalls :
         /\ c.fn = "calculateSqrtPriceX96Precise"
         /\ Times(c) < MaxTimes
         /\ \E r \in {encoderUnder(ConfigInForce(bnConfig), c.priceRatio,
                                    c.token0Decimals, c.token1Decimals)} :
              /\ call' = c
              /\ ret' = r
              /\ seen' = Noted(c, r)
    /\ bnConfig' = ConfigSet(bnConfig)
    /\ pc' = "done"
    /\ UNCHANGED chainVars
    /\ UNCHANGED tokenVars

RepeatWindow ==
    /\ \E c \in RepeatCalls :
         /\ c.fn = "tickWindow"
         /\ Times(c) < MaxTimes
         /\ call' = c
         /\ ret' = tickWindow(c.fee, c.currentTick)
         /\ seen' = Noted(c, tickWindow(c.fee, c.currentTick))
    /\ pc' = "done"
    /\ UNCHANGED <<bnConfig, chainVars>>
    /\ UNCHANGED tokenVars

RepeatSort ==
    /\ \E c \in RepeatCalls :
         /\ c.fn = "sortTokens"
         /\ Times(c) < MaxTimes
         /\ call' = c
         /\ ret' = sortTokens(c.tokenA, c.tokenB)
         /\ seen' = Noted(c, sortTokens(c.tokenA, c.tokenB))
    /\ pc' = "done"
    /\ UNCHANGED <<bnConfig, chainVars>>
    /\ UNCHANGED tokenVars

NextRepeat == RepeatEncode \/ RepeatWindow \/ RepeatSort

SpecRepeat == InitRepeat /\ [][NextRepeat]_vars

-----------------------------------------------------------------------------
(* Transactions sent to the PRC20 contracts, one at a time                  *)

\* Bound on the number of transactions
MaxTxs == 4

\* the contract the transactions go to: pETH, the gas token of its own chain
TokenContracts == {PETH.address}
Senders == {SIGNER, UNIVERSAL_EXECUTOR_MODULE}
Recipients == {SIGNER, UNIVERSAL_EXECUTOR_MODULE, AddressZero}
Spenders == {UNIVERSAL_EXECUTOR_MODULE, AddressZero} \cup TokenContracts
\* 0, 1 and 2^255
TokenAmounts == {<<>>, <<1>>, Add(DivSmall(MaxUint256, 2), <<1>>)}
\* what the handler answers for the chain of the token
HandlerAnswers == [gasToken : {PETH.address, AddressZero}, price : {<<>>, <<1>>}]

InitToken ==
    /\ pc = "token"
    /\ call = <<>>
    /\ ret = <<>>
    /\ seen = <<>>
    /\ bnConfig = LIBRARY_DECIMAL_PLACES
    /\ prc20 = Deployed
    /\ lastTx = NoTx
    /\ pools = <<>>
    /\ run = NoRun

\* the transaction is mined: lastTx tells whether it reverted
Mined(result) == [count |-> lastTx.count + 1, reverted |-> ~result.ok]

Transfer ==
    /\ lastTx.count < MaxTxs
    /\ \E self \in TokenContracts, msgSender \in Senders,
       recipient \in Recipients, amount \in TokenAmounts :
         \E result \in {transfer(prc20, self, msgSender, recipient, amount)} :
           /\ prc20' = result.st
           /\ lastTx' = Mined(result)
    /\ UNCHANGED <<pureVars, bnConfig, chainVars>>

Approve ==
    /\ lastTx.count < MaxTxs
    /\ \E self \in TokenContracts, msgSender \in Senders,
       spender \in Spenders, amount \in TokenAmounts :
         \E result \in {approve(prc20, self, msgSender, spender, amount)} :
           /\ prc20' = result.st
           /\ lastTx' = Mined(result)
    /\ UNCHANGED <<pureVars, bnConfig, chainVars>>

TransferFrom ==
    /\ lastTx.count < MaxTxs
    /\ \E self \in TokenContracts, msgSender \in Senders, sender \in Senders,
       recipient \in Recipients, amount \in TokenAmounts :
         \E result \in {transferFrom(prc20, self, msgSender, sender, recipient, amount)} :
           /\ prc20' = result.st
           /\ lastTx' = Mined(result)
    /\ UNCHANGED <<pureVars, bnConfig, chainVars>>

Burn ==
    /\ lastTx.count < MaxTxs
    /\ \E self \in TokenContracts, msgSender \in Senders, amount \in TokenAmounts :
         \E result \in {burn(prc20, self, msgSender, amount)} :
           /\ prc20' = result.st
           /\ lastTx' = Mined(result)
    /\ UNCHANGED <<pureVars, bnConfig, chainVars>>

Deposit ==
    /\ lastTx.count < MaxTxs
    /\ \E self \in TokenContracts, msgSender \in Senders,
       to \in Recipients, amount \in TokenAmounts :
         \E result \in {deposit(prc20, self, msgSender, to, amount)} :
           /\ prc20' = result.st
           /\ lastTx' = Mined(result)
    /\ UNCHANGED <<pureVars, bnConfig, chainVars>>

Withdraw ==
    /\ lastTx.count < MaxTxs
    /\ \E self \in TokenContracts, msgSender \in Senders,
       amount \in TokenAmounts, handler \in HandlerAnswers :
         \E result \in {withdraw(prc20, self, msgSender, amount, handler)} :
           /\ prc20' = result.st
           /\ lastTx' = Mined(result)
    /\ UNCHANGED <<pureVars, bnConfig, chainVars>>

NextToken ==
    \/ Transfer
    \/ Approve
    \/ TransferFrom
    \/ Burn
    \/ Deposit
    \/ Withdraw

SpecToken == InitToken /\ [][NextToken]_vars

-----------------------------------------------------------------------------
(* The commands of the script, run one process at a time against the chain *)

\* Bound on the number of pools the factory holds
MaxPools == 1

DEFAULT_FEE == 3000
Fees == {500, DEFAULT_FEE, 10000, 9999}
PoolRatios ==
    {Num(4, 3), Num(25, -5), Num(3, 0), Num(0, 0), Num(-4, 0), NaN, Infinity}
TokenPairs ==
    { <<PETH.address, PUSDC.address>>, <<PUSDC.address, PETH.address>>,
      <<PUSDC.address, PUSDC2.address>>, <<PUSDC2.address, PUSDC.address>> }
AmountPairs == { <<1000, 1000>>, <<1, 2>> }
\* slot0.tick of the pool read: ticks off and on the spacing grids, the two
\* ends of the legal range and the ticks a widest half-width inside them
Ticks == {MIN_TICK, MIN_TICK + 10000, -193377, 0, 13863, MAX_TICK - 10000, 887220}

\* the create-pool command lines: every pair and ratio at the default fee,
\* and one pair and ratio at every fee
CreatePoolInputs ==
    [tokens : TokenPairs, priceRatio : PoolRatios, fee : {DEFAULT_FEE}]
    \cup [tokens : {<<PETH.address, PUSDC.address>>}, priceRatio : {Num(4, 3)},
          fee : Fees]

TxEnvs == [factoryOk : BOOLEAN, initOk : BOOLEAN, decimalsOk : BOOLEAN]
\* the allowances read for the two tokens, and the ways an approve fails:
\* the first approve, or the second after the first token needed none or
\* was approved
AllowancePairs ==
    { <<"none", "none">>, <<"exact", "none">>, <<"max", "exact">>,
      <<"none", "max">> }
ApproveEnvs ==
    [allowance0 : {"none"}, allowance1 : {"none"},
     approve0Ok : {FALSE}, approve1Ok : {TRUE}]
    \cup [allowance0 : {"none", "max"}, allowance1 : {"none"},
          approve0Ok : {TRUE}, approve1Ok : {FALSE}]
LiqEnvs ==
    { [currentTick |-> t, allowance0 |-> a[1], allowance1 |-> a[2],
       approve0Ok |-> TRUE, approve1Ok |-> TRUE, mintOk |-> m] :
          t \in Ticks, a \in AllowancePairs, m \in BOOLEAN }
    \cup { [currentTick |-> 0, allowance0 |-> f.allowance0,
            allowance1 |-> f.allowance1, approve0Ok |-> f.approve0Ok,
            approve1Ok |-> f.approve1Ok, mintOk |-> TRUE] : f \in ApproveEnvs }

FullRangeEnvs ==
    { [allowance0 |-> a[1], allowance1 |-> a[2],
       approve0Ok |-> TRUE, approve1Ok |-> TRUE, mintOk |-> m] :
          a \in AllowancePairs, m \in BOOLEAN }
    \cup { [allowance0 |-> f.allowance0, allowance1 |-> f.allowance1,
            approve0Ok |-> f.approve0Ok, approve1Ok |-> f.approve1Ok,
            mintOk |-> TRUE] : f \in ApproveEnvs }

SwapEnvs ==
    [allowance0 : {"none", "exact", "max"}, approve0Ok : {TRUE}, swapOk : BOOLEAN]
    \cup [allowance0 : {"none"}, approve0Ok : {FALSE}, swapOk : {TRUE}]

-----------------------------------------------------------------------------
(* unnamed/part_005: the deploy-pools script                               *)

DEPLOY_FEE == 3000

\* slot0.sqrtPriceX96.eq(0) taken for granted
sqrtPriceX96EqZeroAssumed(slot0) == TRUE

\* slot0.sqrtPriceX96.eq(0): a pool has a price from initialize on
sqrtPriceX96EqZero(slot0) == ~slot0.initialized

\* createThreePools, one pool of the three: sortTokens, getPool, createPool
\* for a pool the factory does not have, slot0 and initialize.  ratio is
\* the price when base sorts first.  The factory reverts createPool for a
\* pool it has and the pool reverts initialize when it has a price; fails
\* names the transaction the chain rejects for other reasons.  What has
\* thrown before is past the catch already.
deployOnePool(st, n, base, quote, ratio, fails) ==
    LET sorted == sortTokens(base, quote)
        token0 == sorted[1]
        token1 == sorted[2]
        poolAddress == PoolKey(token0, token1, DEPLOY_FEE)
        looked == Called(st.run, <<"factory.getPool">>)
        absent == getPool(st.pools, token0, token1, DEPLOY_FEE) = AddressZero
        sent == IF absent THEN Called(looked, <<"factory.createPool">>) ELSE looked
        poolsCreated ==
            IF absent THEN st.pools @@ (poolAddress :> [initialized |-> FALSE])
            ELSE st.pools
        read == Called(sent, <<"pool.slot0">>)
        isBaseToken0 == toLowerCase(token0) = toLowerCase(base)
        priceRatio == IF isBaseToken0 THEN ratio ELSE JSReciprocal(ratio)
        sqrtPriceX96 == calculateSqrtPriceX96DeployPools(priceRatio)
        encoded ==
            [Called(read, <<"pool.initialize">>)
                EXCEPT !.initializeSent =
                           Append(@, [pool |-> poolAddress,
                                      sqrtPriceX96 |-> sqrtPriceX96])]
    IN  IF st.run.threw THEN st
        ELSE IF absent /\ (poolAddress \in DOMAIN st.pools
                             \/ fails = [at |-> "createPool", n |-> n])
        THEN [run |-> Throw(sent, "transaction failed"), pools |-> st.pools]
        ELSE IF ~sqrtPriceX96EqZero(poolsCreated[poolAddress])
        THEN [run |-> read, pools |-> poolsCreated]
        ELSE IF poolsCreated[poolAddress].initialized
                \/ fails = [at |-> "initialize", n |-> n]
        THEN [run |-> Throw(encoded, "transaction failed"), pools |-> poolsCreated]
        ELSE [run |-> encoded,
              pools |-> [poolsCreated EXCEPT ![poolAddress].initialized = TRUE]]

\* the pools from the n-th on, one after another
RECURSIVE deployPoolsFrom(_, _, _, _)
deployPoolsFrom(st, n, targets, fails) ==
    IF n > Len(targets) THEN st
    ELSE One({ deployPoolsFrom(next, n + 1, targets, fails) :
                 next \in {deployOnePool(st, n, targets[n][1], targets[n][2],
                                         targets[n][3], fails)} })

\* createThreePools: WPUSH/TokenA at 10, WPUSH/TokenB at 20, TokenA/TokenB
\* at 2; the catch turns what is thrown into the answer false
createThreePools(r, poolsNow, tokenA, tokenB, fails) ==
    deployPoolsFrom([run |-> r, pools |-> poolsNow], 1,
                    << <<WPUSH.address, tokenA, Num(1, 1)>>,
                       <<WPUSH.address, tokenB, Num(2, 1)>>,
                       <<tokenA, tokenB, Num(2, 0)>> >>,
                    fails)

\* addInitialLiquidity: WPUSH is topped up when the signer holds less than
\* 3000, then two approvals and a full-range mint for each pool
addInitialLiquidity(r, fails, wpushEnough) ==
    LET funded ==
            Called(r, IF wpushEnough THEN <<"balanceOf">>
                      ELSE <<"balanceOf", "deposit">>)
        position == <<"approve", "approve", "positionManager.mint">>
        first == [Called(funded, position) EXCEPT !.mintSubmitted = TRUE]
    IN  IF fails = [at |-> "mint", n |-> 1] THEN Throw(first, "transaction failed")
        ELSE [Called(first, position \o position) EXCEPT !.minted = TRUE]

\* deployPools: deployTestTokens, createThreePools, addInitialLiquidity.  A
\* phase that answers false ends the run with an error of its own; the
\* addresses saved at the end are a log of the run.
deployPools(poolsNow, tokenA, tokenB, env) ==
    LET started == [NoRun EXCEPT !.op = "deployPools"]
        deploying == Called(started, <<"deploy">>)
        tokensDeployed ==
            [Called(started, <<"deploy", "deploy", "name", "symbol", "name", "symbol">>)
                EXCEPT !.tokenA = tokenA, !.tokenB = tokenB]
        finish(three) ==
            One({ IF liquidity.threw
                  THEN [run |-> Throw(liquidity, "Liquidity addition failed"),
                        pools |-> three.pools]
                  ELSE [run |-> liquidity, pools |-> three.pools] :
                    liquidity \in {addInitialLiquidity(three.run, env.fails,
                                                       env.wpushEnough)} })
    IN  IF env.fails = [at |-> "deploy", n |-> 1]
        THEN [run |-> Throw(deploying, "Token deployment failed"),
              pools |-> poolsNow]
        ELSE One({ IF three.run.threw
                   THEN [run |-> Throw(three.run, "Pool creation failed"),
                         pools |-> three.pools]
                   ELSE finish(three) :
                     three \in {createThreePools(tokensDeployed, poolsNow,
                                                 tokenA, tokenB, env.fails)} })

Init ==
    /\ pc = "chain"
    /\ call = <<>>
    /\ ret = <<>>
    /\ seen = <<>>
    /\ bnConfig = LIBRARY_DECIMAL_PLACES
    /\ prc20 = Deployed
    /\ lastTx = NoTx
    /\ pools = <<>>
    /\ run = NoRun

\* create-pool: createPool, which goes on to addLiquidityToPool when asked to
\* and when it has a pool to return
CreatePool ==
    /\ run.op = "none"
    /\ \E in \in CreatePoolInputs :
       \E price \in {createPoolPrice(in.tokens[1], in.tokens[2], in.priceRatio)} :
       \E tx \in TxEnvs :
       \E made \in {createPool(pools, in.tokens[1], in.tokens[2], in.priceRatio,
                               in.fee, price, tx)} :
         /\ Cardinality(DOMAIN made.pools) <= MaxPools
         /\ pools' = made.pools
         /\ bnConfig' = IF made.run.created /\ made.run.decimalsReadable
                         THEN ConfigSet(bnConfig) ELSE bnConfig
         /\ \E addLiquidity \in BOOLEAN :
              IF addLiquidity /\ ~made.run.threw
              THEN \E amounts \in AmountPairs, liq \in LiqEnvs :
                     run' = addLiquidityToPool(made.run, made.pools, made.run.pool,
                                in.tokens[1], in.tokens[2],
                                amounts[1], amounts[2], liq)
              ELSE run' = made.run
    /\ UNCHANGED pureVars
    /\ UNCHANGED tokenVars

AddLiquidityToPool ==
    /\ run.op = "none"
    /\ \E poolAddress \in DOMAIN pools, tokens \in TokenPairs,
          amounts \in AmountPairs, liq \in LiqEnvs :
         run' = addLiquidityToPool(
                    [NoRun EXCEPT !.op = "addLiquidityToPool",
                                  !.pool = poolAddress,
                                  !.tokenA = tokens[1], !.tokenB = tokens[2]],
                    pools, poolAddress, tokens[1], tokens[2],
                    amounts[1], amounts[2], liq)
    /\ UNCHANGED <<pools, pureVars, bnConfig>>
    /\ UNCHANGED tokenVars

AddFullRangeLiquidity ==
    /\ run.op = "none"
    /\ \E poolAddress \in DOMAIN pools, amounts \in AmountPairs,
          answers \in FullRangeEnvs :
         run' = addFullRangeLiquidity(
                    [NoRun EXCEPT !.op = "addFullRangeLiquidity",
                                  !.pool = poolAddress],
                    pools, poolAddress, amounts[1], amounts[2], answers)
    /\ UNCHANGED <<pools, pureVars, bnConfig>>
    /\ UNCHANGED tokenVars

\* the swap command: performSwap on a pool of the factory
PerformSwap ==
    /\ run.op = "none"
    /\ \E poolAddress \in DOMAIN pools, tokens \in TokenPairs,
          amountIn \in {1, 4000}, answers \in SwapEnvs :
         run' = performSwap([NoRun EXCEPT !.op = "performSwap",
                                          !.pool = poolAddress,
                                          !.tokenA = tokens[1],
                                          !.tokenB = tokens[2]],
                            poolAddress, tokens[1], tokens[2], amountIn, answers)
    /\ UNCHANGED <<pools, pureVars, bnConfig>>
    /\ UNCHANGED tokenVars

\* add-liquidity-core.js run directly: parseArgs reads the options from the
\* environment variables, where only a non-empty variable sets an option
CoreTokenOptions ==
    { << <<>>, <<>> >>, <<PETH.address, PUSDC.address>>,
      <<PUSDC2.address, PUSDC.address>> }
CoreTickOptions ==
    { << <<>>, <<>> >>, << <<-60>>, <<60>> >>, << <<60>>, <<60>> >>,
      << <<120>>, <<60>> >>, << <<0>>, <<0>> >>, << <<>>, <<-887220>> >> }
CoreAmountOptions == { << <<>>, <<>> >>, << <<1000>>, <<1>> >> }
CoreLiqEnvs ==
    [fileExists : BOOLEAN, balance0Enough : BOOLEAN, balance1Enough : BOOLEAN,
     mintOk : BOOLEAN, firstPool : DOMAIN pools \cup {AddressZero}]

AddLiquidityCore ==
    /\ run.op = "none"
    /\ \E poolAddress \in DOMAIN pools \cup {AddressZero},
          tokens \in CoreTokenOptions, ticks \in CoreTickOptions,
          amounts \in CoreAmountOptions, answers \in CoreLiqEnvs :
         run' = addLiquidityCore(
                    [NoRun EXCEPT !.op = "addLiquidity"], pools,
                    [poolAddress |-> poolAddress,
                     token0 |-> tokens[1], token1 |-> tokens[2],
                     tickLower |-> ticks[1], tickUpper |-> ticks[2],
                     amount0 |-> amounts[1], amount1 |-> amounts[2]],
                    answers)
    /\ UNCHANGED <<pools, pureVars, bnConfig>>
    /\ UNCHANGED tokenVars

\* create-pool-core.js run directly: parseArgs reads TOKEN0_ADDRESS,
\* TOKEN1_ADDRESS, POOL_FEE, PRICE_RATIO and FORCE_CREATE
CoreCreateOptions ==
    [token0 : {PETH.address}, token1 : {PUSDC.address},
     fee : {<<>>, <<500>>},
     priceRatio : {<<>>, <<Num(2, 0)>>, <<Num(4, 3)>>, <<Num(0, 0)>>,
                   <<Num(-4, 0)>>, <<NaN>>},
     force : BOOLEAN]
    \cup [token0 : {PUSDC.address, <<>>}, token1 : {PETH.address}, fee : {<<>>},
          priceRatio : {<<Num(4, 3)>>}, force : {FALSE}]

CreatePoolCore ==
    /\ run.op = "none"
    /\ \E options \in CoreCreateOptions, tx \in TxEnvs :
       \E made \in {createPoolCore(pools, options, tx)} :
         /\ Cardinality(DOMAIN made.pools) <= MaxPools
         /\ pools' = made.pools
         /\ run' = made.run
    /\ UNCHANGED <<pureVars, bnConfig>>
    /\ UNCHANGED tokenVars

\* the process ends; only the chain remembers
Exit ==
    /\ run.op # "none"
    /\ run' = NoRun
    /\ bnConfig' = LIBRARY_DECIMAL_PLACES
    /\ UNCHANGED <<pools, pureVars>>
    /\ UNCHANGED tokenVars

Next ==
    \/ CreatePool
    \/ AddLiquidityToPool
    \/ AddFullRangeLiquidity
    \/ PerformSwap
    \/ AddLiquidityCore
    \/ CreatePoolCore
    \/ Exit

Spec == Init /\ [][Next]_vars

-----------------------------------------------------------------------------
(* Runs of the deploy-pools script among create-pool runs on its tokens    *)

\* the addresses the chain gives TokenA and TokenB in a run
DeployedTokenPairs ==
    { <<TTA.address, TTB.address>>, <<TTA2.address, TTB2.address>> }

\* the transaction the chain rejects, if any
DeployFailures ==
    {[at |-> "none", n |-> 0], [at |-> "deploy", n |-> 1], [at |-> "mint", n |-> 1]}
    \cup [at : {"createPool", "initialize"}, n : 1..3]

DeployEnvs ==
    [fails : DeployFailures, wpushEnough : {TRUE}]
    \cup [fails : {[at |-> "none", n |-> 0]}, wpushEnough : {FALSE}]

DeployPoolInputs ==
    [tokens : { <<WPUSH.address, TTA.address>>, <<TTB.address, WPUSH.address>>,
                <<TTA.address, TTB.address>> },
     priceRatio : {Num(1, 1)}]

DeployCoreOptions ==
    [token0 : {WPUSH.address}, token1 : {TTA.address, TTB2.address},
     fee : {<<>>}, priceRatio : {<<>>, <<Num(1, 1)>>}, force : BOOLEAN]

InitDeploy ==
    /\ pc = "deploy"
    /\ call = <<>>
    /\ ret = <<>>
    /\ seen = <<>>
    /\ bnConfig = LIBRARY_DECIMAL_PLACES
    /\ prc20 = Deployed
    /\ lastTx = NoTx
    /\ pools = <<>>
    /\ run = NoRun

\* deploy-pools
DeployPools ==
    /\ run.op = "none"
    /\ \E tokens \in DeployedTokenPairs, env \in DeployEnvs :
       \E made \in {deployPools(pools, tokens[1], tokens[2], env)} :
         /\ pools' = made.pools
         /\ run' = made.run
    /\ UNCHANGED <<pureVars, bnConfig>>
    /\ UNCHANGED tokenVars

\* create-pool on the tokens of a deployment, without --add-liquidity
CreatePoolOnDeployed ==
    /\ run.op = "none"
    /\ \E in \in DeployPoolInputs :
       \E price \in {createPoolPrice(in.tokens[1], in.tokens[2], in.priceRatio)} :
       \E tx \in TxEnvs :
       \E made \in {createPool(pools, in.tokens[1], in.tokens[2], in.priceRatio,
                               DEPLOY_FEE, price, tx)} :
         /\ pools' = made.pools
         /\ bnConfig' = IF made.run.created /\ made.run.decimalsReadable
                         THEN ConfigSet(bnConfig) ELSE bnConfig
         /\ run' = made.run
    /\ UNCHANGED pureVars
    /\ UNCHANGED tokenVars

\* createPool of create-pool-core.js on the tokens of a deployment
CreatePoolCoreOnDeployed ==
    /\ run.op = "none"
    /\ \E options \in DeployCoreOptions, tx \in TxEnvs :
       \E made \in {createPoolCore(pools, options, tx)} :
         /\ pools' = made.pools
         /\ run' = made.run
    /\ UNCHANGED <<pureVars, bnConfig>>
    /\ UNCHANGED tokenVars

NextDeploy ==
    \/ DeployPools
    \/ CreatePoolOnDeployed
    \/ CreatePoolCoreOnDeployed
    \/ Exit

SpecDeploy == InitDeploy /\ [][NextDeploy]_vars

-----------------------------------------------------------------------------
(* Properties of the encoder and of sortTokens, checked under SpecPure     *)

Q192 == Mul(Q96, Q96)

EncoderReturned == pc = "done" /\ call.fn = "calculateSqrtPriceX96Precise"
SortReturned == pc = "done" /\ call.fn = "sortTokens"

\* The raw ratio of an encoder call is m * 10^k, k = e + d1 - d0.  Both sides
\* of a comparison with P^2 / 2^192 are scaled to integers:
\* PriceSide(P) = P^2 * 10^max(0, -k) and RatioSide = m * 10^max(0, k) * 2^192.
RawExp(c) == c.priceRatio.e + c.token1Decimals - c.token0Decimals
PriceSide(c, P) == ShiftDec(Mul(P, P), Max2(0, -RawExp(c)))
RatioSide(c) ==
    ShiftDec(Mul(BNOfNumber(c.priceRatio).c, Q192), Max2(0, RawExp(c)))

\* C1: the price an encoder call returns decodes back to the raw ratio R of
\* the call: |P*P / 2^192 - R| <= 1e-12 * R, for every ratio and decimals.
C1_RoundTrip ==
    EncoderReturned =>
        /\ ret.ok
        /\ Leq(ShiftDec(Dist(PriceSide(call, ret.v), RatioSide(call)), 12),
               RatioSide(call))

\* C2: the encoder returns exactly floor(sqrt(R) * 2^96) for the raw ratio R
\* of the call: P^2 <= R * 2^192 < (P + 1)^2, for every ratio and decimals.
C2_ExactFloor ==
    EncoderReturned =>
        /\ ret.ok
        /\ Leq(PriceSide(call, ret.v), RatioSide(call))
        /\ Less(RatioSide(call), PriceSide(call, Add(ret.v, <<1>>)))

\* C3: with equal decimals the encoded price is the same whatever the
\* decimals are, and the price of the ratio k*k is exactly k * 2^96.
C3_SameDecimals ==
    (EncoderReturned /\ call.token0Decimals = call.token1Decimals) =>
        /\ \A d \in EncDecimals :
              ret = calculateSqrtPriceX96Precise(call.priceRatio, d, d)
        /\ \A k \in 1..MaxK :
              call.priceRatio = Num(k * k, 0) => ret = Returned(MulSmall(Q96, k))

\* ratio 4 with d0 = d1 = 18 gives 2 * 2^96 = 158456325028528675187087900672
C3_Witness ==
    /\ EncoderReturned
    /\ call.priceRatio = Num(4, 0)
    /\ call.token0Decimals = 18
    /\ call.token1Decimals = 18
    /\ ret = Returned(<<672, 8790, 1870, 8675, 2852, 3250, 8456, 15>>)

\* C6: sortTokens returns its two arguments, the one whose lower-cased string
\* is smaller first, and names the same token0 and token1 whichever way
\* round the arguments are given.
C6_CanonicalOrder ==
    SortReturned =>
        LET a == call.tokenA
            b == call.tokenB
            swappedArgs == sortTokens(b, a)
        IN  /\ ret \in {<<a, b>>, <<b, a>>}
            /\ ~StrLess(toLowerCase(ret[2]), toLowerCase(ret[1]))
            /\ toLowerCase(ret[1]) = toLowerCase(swappedArgs[1])
            /\ toLowerCase(ret[2]) = toLowerCase(swappedArgs[2])
            /\ toLowerCase(a) # toLowerCase(b) =>
                  /\ StrLess(toLowerCase(ret[1]), toLowerCase(ret[2]))
                  /\ ret = swappedArgs

\* "0xC3" sorts after "0xb2" although "C" precedes "b" as a code unit
C6_Witness ==
    /\ SortReturned
    /\ call.tokenA = <<"0", "x", "C", "3">>
    /\ call.tokenB = <<"0", "x", "b", "2">>
    /\ ret = << <<"0", "x", "b", "2">>, <<"0", "x", "C", "3">> >>

-----------------------------------------------------------------------------
(* Properties of the commands, checked under Spec                          *)

SupportedFees == {500, 3000, 10000}

\* the input order of a createPool run is the canonical order
InputIsCanonical == toLowerCase(run.tokenA) = toLowerCase(run.token0)

\* C4: the encoder is given the decimals of the sorted token0 and token1,
\* whichever order the tokens were passed in, so that the price written is
\* floor(sqrt(ratioCanonical * 10^(d1 - d0)) * 2^96); for 1 pETH (18
\* decimals, token0) = 4000 pUSDC (6 decimals) that is
\* floor(sqrt(4 * 10^-9) * 2^96).
C4_CanonicalDecimals ==
    (run.op = "createPool" /\ run.encoded) =>
        LET c == [priceRatio |-> run.actualPriceRatio,
                  token0Decimals |-> Contract(run.token0).decimals,
                  token1Decimals |-> Contract(run.token1).decimals]
        IN  /\ {run.token0, run.token1} = {run.tokenA, run.tokenB}
            /\ StrLess(toLowerCase(run.token0), toLowerCase(run.token1))
            /\ run.token0Decimals = c.token0Decimals
            /\ run.token1Decimals = c.token1Decimals
            /\ Leq(PriceSide(c, run.sqrtPriceX96), RatioSide(c))
            /\ Less(RatioSide(c), PriceSide(c, Add(run.sqrtPriceX96, <<1>>)))

\* floor(sqrt(4 * 10^-9) * 2^96) = 5010828967500958623728276
C4_Witness ==
    /\ run.op = "createPool"
    /\ run.tokenA = PETH.address
    /\ run.tokenB = PUSDC.address
    /\ run.priceRatio = Num(4, 3)
    /\ run.token0Decimals = 18
    /\ run.token1Decimals = 6
    /\ run.initialized
    /\ run.sqrtPriceX96 = <<8276, 2372, 9586, 7500, 2896, 108, 5>>

\* C5: createPool inverts the ratio exactly when the input token0 is not the
\* canonical token0: in canonical input order the ratio is used unchanged,
\* in swapped order its reciprocal is.
C5_InvertsWhenSwapped ==
    (run.op = "createPool" /\ run.created) =>
        /\ run.inverted <=> ~InputIsCanonical
        /\ run.actualPriceRatio =
              IF InputIsCanonical THEN run.priceRatio
              ELSE JSReciprocal(run.priceRatio)

\* C7: createPool with a zero or negative ratio throws before any external
\* call: nothing is looked up, created, encoded or initialized.
C7_NonPositiveRejected ==
    (run.op = "createPool" /\ IsFinite(run.priceRatio) /\ run.priceRatio.m <= 0) =>
        /\ run.threw
        /\ run.error = "Price ratio must be positive"
        /\ run.calls = <<>>
        /\ run.pool = AddressZero
        /\ ~run.created /\ ~run.encoded /\ ~run.initialized
        /\ ~run.mintSubmitted

C7_Witness ==
    /\ run.op = "createPool"
    /\ run.priceRatio = Num(0, 0)
    /\ run.threw
    /\ run.calls = <<>>

\* C8: createPool with a NaN or infinite ratio throws, and no pool is created
\* or initialized from such a ratio.
C8_NonFiniteRejected ==
    (run.op = "createPool" /\ ~IsFinite(run.priceRatio)) =>
        /\ run.threw
        /\ ~run.created
        /\ ~run.initialized

\* C9: for a pool whose fee is not 500, 3000 or 10000 no tick spacing is
\* resolved and no mint is submitted.
C9_UnknownFeeFails ==
    (run.op # "none" /\ run.fee \notin SupportedFees) =>
        /\ run.tickSpacing = 0
        /\ ~run.mintSubmitted

\* C10: wherever a window is planned, in addLiquidityToPool and in
\* addFullRangeLiquidity, the spacing is 10 for fee 500, 60 for fee 3000 and
\* 200 for fee 10000.
C10_SpacingOfFee ==
    (/\ run.mintSubmitted
     /\ run.op \in {"createPool", "addLiquidityToPool", "addFullRangeLiquidity"}) =>
        /\ run.fee = 500 => run.tickSpacing = 10
        /\ run.fee = 3000 => run.tickSpacing = 60
        /\ run.fee = 10000 => run.tickSpacing = 200

C10_Witness ==
    /\ run.op = "addFullRangeLiquidity"
    /\ run.fee = 500
    /\ run.tickSpacing = 10
    /\ run.minted

\* a run of addLiquidityToPool, on its own or at the end of createPool, that
\* planned its window and submitted it
WindowPlanned ==
    /\ run.op \in {"createPool", "addLiquidityToPool"}
    /\ run.mintSubmitted

\* C11: for the fees 500, 3000 and 10000 and every current tick, negative,
\* zero or positive, the tickLower and tickUpper that addLiquidityToPool
\* computes are integer multiples of the tick spacing of the fee.
C11_TickAlignment ==
    (WindowPlanned /\ run.fee \in SupportedFees) =>
        /\ run.tickSpacing > 0
        /\ run.tickLower % run.tickSpacing = 0
        /\ run.tickUpper % run.tickSpacing = 0

\* fee 3000 at tick -193377: [-198377, -188377] is rounded to [-198420, -188340]
C11_Witness ==
    /\ WindowPlanned
    /\ run.fee = 3000
    /\ run.currentTick = -193377
    /\ run.tickLower = -198420
    /\ run.tickUpper = -188340

\* C12: for every fee and every current tick the window contains the
\* symmetric range of the fee around the current tick:
\* tickLower <= currentTick - tickRange and currentTick + tickRange <= tickUpper.
C12_WindowContainment ==
    WindowPlanned =>
        /\ run.tickLower <= run.currentTick - TickRange(run.fee)
        /\ run.currentTick + TickRange(run.fee) <= run.tickUpper

\* fee 500 at tick 13863: both ends are moved outward, to 11860 and 15870
C12_Witness ==
    /\ WindowPlanned
    /\ run.fee = 500
    /\ run.currentTick = 13863
    /\ run.tickLower < run.currentTick - TickRange(run.fee)
    /\ run.currentTick + TickRange(run.fee) < run.tickUpper

\* C13: for the fees 500, 3000 and 10000 and a current tick in
\* [MIN_TICK + tickRange, MAX_TICK - tickRange] the window has
\* tickLower < tickUpper.
C13_WindowNonDegenerate ==
    (/\ WindowPlanned
     /\ run.fee \in SupportedFees
     /\ MIN_TICK + TickRange(run.fee) <= run.currentTick
     /\ run.currentTick <= MAX_TICK - TickRange(run.fee)) =>
        run.tickLower < run.tickUpper

\* a current tick on the grid, where rounding adds no width
C13_Witness ==
    /\ WindowPlanned
    /\ run.fee = 3000
    /\ run.currentTick = 0
    /\ run.tickLower = -5040
    /\ run.tickUpper = 5040

\* C14: for every fee and every current tick in [MIN_TICK, MAX_TICK] both
\* bounds of the window given to positionManager.mint lie in
\* [MIN_TICK, MAX_TICK].
C14_WithinLegalRange ==
    (WindowPlanned /\ MIN_TICK <= run.currentTick /\ run.currentTick <= MAX_TICK) =>
        /\ MIN_TICK <= run.tickLower
        /\ run.tickUpper <= MAX_TICK

\* C15: positionManager.mint is never called with a degenerate window:
\* whether the window was computed or passed in by the caller as the
\* tickLower and tickUpper options, a run that submits a mint has
\* tickLower < tickUpper.
C15_NoDegenerateMint ==
    run.mintSubmitted => run.tickLower < run.tickUpper

\* a call of one of the two table-driven encoders has returned
TableEncoderReturned ==
    /\ pc = "done"
    /\ call.fn \in {"calculateSqrtPriceX96", "deployPools.calculateSqrtPriceX96"}

\* the requested ratio as a call of no decimal adjustment
Requested ==
    [priceRatio |-> call.priceRatio, token0Decimals |-> 0, token1Decimals |-> 0]

\* C20: an encoder returns the encoding of the ratio requested or fails: a
\* price P it returns decodes to that ratio, |P*P / 2^192 - R| <= R / 100
\* (the three digits of a table entry are well within that), and a ratio
\* that is not a positive number gets no price.
C20_NoBestGuess ==
    (TableEncoderReturned /\ ret.ok) =>
        /\ IsFinite(call.priceRatio)
        /\ call.priceRatio.m > 0
        /\ Leq(ShiftDec(Dist(PriceSide(Requested, ret.v), RatioSide(Requested)), 2),
               RatioSide(Requested))

\* a run of createPool, of either script, that got as far as its pool
PoolMade == run.op \in {"createPool", "core.createPool"} /\ run.created

\* the reads of decimals() a run has made
DecimalsReads == Cardinality({ i \in DOMAIN run.calls : run.calls[i] = "decimals" })

\* C16: when the decimals of a token cannot be read, createPool encodes no
\* price, and the createPool that always sets a price fails; and every price
\* encoded comes after reading the decimals of both tokens, so none rests
\* on assumed decimals or on none.
C16_DecimalsRequired ==
    PoolMade =>
        /\ ~run.decimalsReadable => ~run.encoded
        /\ (~run.decimalsReadable /\ run.op = "createPool") => run.threw
        /\ run.encoded => DecimalsReads >= 2

\* C18: every price the encoder returns is below 2^160, for every positive
\* ratio it accepts and all decimals.
C18_FitsUint160 ==
    (EncoderReturned /\ ret.ok) => Less(ret.v, PowBig(<<2>>, 160))

\* new BN(1).dividedBy(n) for a number n > 0 of the model: the quotient
\* 1 / (m * 10^e) rounded half up to DECIMAL_PLACES decimals
DecimalReciprocal(n) ==
    Long(DropDecHalfUp(DivSmall(ShiftDec(<<1>>, DECIMAL_PLACES + 1 - n.e), n.m), 1),
         -DECIMAL_PLACES)

\* C19: the path from the ratio given to createPool to sqrtPriceX96 is
\* decimal arithmetic of DECIMAL_PLACES decimals throughout: where the
\* ratio is inverted, the price initialized is the encoding of the decimal
\* quotient 1 / ratio, with no rounding to a binary double on the way.
C19_DecimalThroughout ==
    (/\ run.op = "createPool"
     /\ run.encoded
     /\ run.inverted
     /\ run.priceRatio.k = "num") =>
        run.sqrtPriceX96 =
            calculateSqrtPriceX96Precise(DecimalReciprocal(run.priceRatio),
                                         run.token0Decimals, run.token1Decimals).v

-----------------------------------------------------------------------------
(* Properties of repeated calls, checked under SpecRepeat                  *)

\* C17: a call of the encoder or of the tick-window computation returns what
\* the same call returned the first time the process made it, whatever
\* calls the process made before it and between the two.
C17_Deterministic ==
    (pc = "done" /\ call.fn \in {"calculateSqrtPriceX96Precise", "tickWindow"}) =>
        ret = seen[call].ret

\* the encoder called a second time on a raw ratio of 33 decimals, after
\* calls of the other functions
C17_Witness ==
    /\ pc = "done"
    /\ call.fn = "calculateSqrtPriceX96Precise"
    /\ call.priceRatio = Num(1, -15)
    /\ call.token1Decimals = 0
    /\ seen[call].times = 2
    /\ \E c \in DOMAIN seen : c.fn = "tickWindow"
    /\ \E c \in DOMAIN seen : c.fn = "sortTokens"
    /\ ret = seen[call].ret

-----------------------------------------------------------------------------
(* Properties of the later sections: what reaches the mint, the full-range  *)
(* window, pools that exist, approvals                                     *)

\* the bound an option of the caller stands for: the value supplied when
\* there is one, the default when there is none
Supplied(option, fallback) == IF option = <<>> THEN fallback ELSE option[1]

\* C21: the tickLower and tickUpper handed to positionManager.mint by the
\* core addLiquidity are the bounds the caller supplied, 0 included, and the
\* defaults -887220 and 887220 only where the caller supplied none.
C21_TicksPassedThrough ==
    (run.op = "addLiquidity" /\ run.mintSubmitted) =>
        /\ run.tickLower = Supplied(run.tickLowerOption, DEFAULT_TICK_LOWER)
        /\ run.tickUpper = Supplied(run.tickUpperOption, DEFAULT_TICK_UPPER)

\* the half-width the README and the changelog give for addLiquidityToPool
DOCUMENTED_TICK_RANGE == 120

\* C22: addLiquidityToPool builds its window from a half-width of 120 ticks
\* for every fee: tickLower is the multiple of the spacing at or next below
\* currentTick - 120 and tickUpper the one at or next above currentTick + 120.
C22_HalfWidth120 ==
    (WindowPlanned /\ run.fee \in SupportedFees) =>
        /\ run.tickLower <= run.currentTick - DOCUMENTED_TICK_RANGE
        /\ run.currentTick - DOCUMENTED_TICK_RANGE < run.tickLower + run.tickSpacing
        /\ run.tickUpper - run.tickSpacing < run.currentTick + DOCUMENTED_TICK_RANGE
        /\ run.currentTick + DOCUMENTED_TICK_RANGE <= run.tickUpper

\* a run of addFullRangeLiquidity that submitted its mint for a pool of one
\* of the three fees
FullRangePlanned ==
    /\ run.op = "addFullRangeLiquidity"
    /\ run.mintSubmitted
    /\ run.fee \in SupportedFees

\* C23: for the fees 500, 3000 and 10000 addFullRangeLiquidity mints with
\* tickLower the smallest multiple of the fee's tick spacing that is
\* >= MIN_TICK and tickUpper the largest multiple that is <= MAX_TICK.
C23_FullRangeWidest ==
    FullRangePlanned =>
        /\ run.tickLower % TickSpacing(run.fee) = 0
        /\ run.tickUpper % TickSpacing(run.fee) = 0
        /\ MIN_TICK <= run.tickLower
        /\ run.tickLower - TickSpacing(run.fee) < MIN_TICK
        /\ run.tickUpper <= MAX_TICK
        /\ MAX_TICK < run.tickUpper + TickSpacing(run.fee)

\* fee 500: [-887270, 887270], one spacing short of leaving the legal range
C23_Witness ==
    /\ FullRangePlanned
    /\ run.fee = 500
    /\ run.tickLower = -887270
    /\ run.tickUpper = 887270

\* C25: the window of addLiquidityToPool is the tightest one on the grid
\* around the symmetric range: each bound is less than one spacing away from
\* currentTick -/+ tickRange, and equals it when that is on the grid.
C25_TightestWindow ==
    WindowPlanned =>
        /\ run.tickLower > run.currentTick - TickRange(run.fee) - run.tickSpacing
        /\ run.tickUpper < run.currentTick + TickRange(run.fee) + run.tickSpacing
        /\ (run.currentTick - TickRange(run.fee)) % run.tickSpacing = 0
             => run.tickLower = run.currentTick - TickRange(run.fee)
        /\ (run.currentTick + TickRange(run.fee)) % run.tickSpacing = 0
             => run.tickUpper = run.currentTick + TickRange(run.fee)

\* fee 500 at tick 887220: both ends of the range are on the grid of 10 and
\* are the bounds; at tick 13863 neither is
C25_Witness ==
    /\ WindowPlanned
    /\ run.fee = 500
    /\ run.currentTick = 887220
    /\ run.tickLower = 885220
    /\ run.tickUpper = 889220

\* the calls a run made that are the call named
CallsOf(r, name) == { i \in DOMAIN r.calls : r.calls[i] = name }

\* a run of createPool, of either script, has begun in this step and
\* factory.getPool answered with a pool for the sorted pair and the fee
FoundExisting ==
    /\ run.op = "none"
    /\ run'.op \in {"createPool", "core.createPool"}
    /\ CallsOf(run', "factory.getPool") # {}
    /\ PoolKey(run'.token0, run'.token1, run'.fee) \in DOMAIN pools

AmountGivenFor(token) ==
    IF toLowerCase(token) = toLowerCase(run.tokenA)
    THEN run.inputAmount0 ELSE run.inputAmount1

\* C26: in addLiquidityToPool amount0Desired is the caller's amount for the
\* input token that became token0, in that token's decimals, and
\* amount1Desired the one for token1; token0 and token1 of the mint
\* parameters are the input tokens in canonical order.
C26_AmountsFollowTokens ==
    WindowPlanned =>
        /\ StrLess(toLowerCase(run.token0), toLowerCase(run.token1))
        /\ {toLowerCase(run.token0), toLowerCase(run.token1)}
             = {toLowerCase(run.tokenA), toLowerCase(run.tokenB)}
        /\ run.amount0Desired
             = parseUnits(AmountGivenFor(run.token0), Contract(run.token0).decimals)
        /\ run.amount1Desired
             = parseUnits(AmountGivenFor(run.token1), Contract(run.token1).decimals)

\* pUSDC, pETH given with amounts 1 and 2: pETH is token0 and takes the 2,
\* with 18 decimals; pUSDC takes the 1, with 6
C26_Witness ==
    /\ WindowPlanned
    /\ run.tokenA = PUSDC.address
    /\ run.tokenB = PETH.address
    /\ run.inputAmount0 = 1
    /\ run.inputAmount1 = 2
    /\ run.token0 = PETH.address
    /\ run.amount0Desired = parseUnits(2, 18)
    /\ run.amount1Desired = parseUnits(1, 6)

\* a run of createPool, of either script, that was given a positive finite
\* price ratio and returned a pool address
PoolReturned ==
    /\ run.op \in {"createPool", "core.createPool"}
    /\ IsFinite(run.priceRatio)
    /\ ~LeqZero(run.priceRatio)
    /\ ~run.threw
    /\ run.pool # AddressZero

\* C27: after any sequence of createPool runs, a run that failed between
\* factory.createPool and pool.initialize included, a createPool called
\* with a price ratio that returns a pool address returns an initialized
\* pool.
C27_ReturnedPoolInitialized ==
    PoolReturned =>
        /\ run.pool \in DOMAIN pools
        /\ pools[run.pool].initialized

-----------------------------------------------------------------------------
(* Properties of the PRC20 contract, checked under SpecToken               *)

RECURSIVE SumOver(_, _)
SumOver(balances, accounts) ==
    IF accounts = {} THEN <<>>
    ELSE LET a == CHOOSE x \in accounts : TRUE
         IN  Add(balances[a], SumOver(balances, accounts \ {a}))

\* the sum of all balances of a contract, as a number without a width
SumOfBalances(c) == SumOver(prc20[c]._balances, Accounts)

\* C30: after any sequence of deposit, burn, withdraw, transfer and
\* transferFrom calls, reverted ones included, totalSupply of a PRC20 equals
\* the sum of all its balances, and a call that reverted has changed no
\* balance, allowance or supply.
C30_SupplyIsSumOfBalances ==
    /\ [](\A c \in TokenContracts : prc20[c]._totalSupply = SumOfBalances(c))
    /\ [][lastTx'.reverted => prc20' = prc20]_vars

-----------------------------------------------------------------------------
(* Properties of safeApprove and its callers, checked under Spec           *)

\* C29: when safeApprove returns normally the allowance of the spender is at
\* least the amount asked for; it sends an approve only if the allowance it
\* read was below that amount; and when the approval fails the caller
\* throws without going on to positionManager.mint or to the swap.
C29_SafeApprove ==
    \A i \in DOMAIN run.approvals :
       /\ run.approvals[i].returned =>
             Leq(run.approvals[i].amount, run.approvals[i].after)
       /\ run.approvals[i].sent =>
             Less(run.approvals[i].read, run.approvals[i].amount)
       /\ ~run.approvals[i].returned =>
             /\ run.threw
             /\ ~run.mintSubmitted
             /\ ~run.swapSubmitted
             /\ CallsOf(run, "positionManager.mint") = {}
             /\ CallsOf(run, "swapRouter.exactInputSingle") = {}

\* addLiquidityToPool found the allowance of token0 equal to the amount and
\* sent no approve, approved token1 from nothing, and went on to mint
C29_Witness ==
    /\ run.op = "addLiquidityToPool"
    /\ Len(run.approvals) = 2
    /\ run.approvals[1].read = run.approvals[1].amount
    /\ ~run.approvals[1].sent
    /\ run.approvals[2].read = <<>>
    /\ run.approvals[2].sent
    /\ run.approvals[2].after = MaxUint256
    /\ run.mintSubmitted

-----------------------------------------------------------------------------
\* the pool has a price already
Priced(poolsNow, poolAddress) ==
    poolAddress \in DOMAIN poolsNow /\ poolsNow[poolAddress].initialized

====
